---- MODULE Spec2Model ----
(***************************************************************************)
(* aitask: the dispatcher aiTask (src/aiTask.js) with its response cache,  *)
(* and the provider adapters callGemini / callGeminiModel, _callOpenAI     *)
(* (shared by callOpenAI and callOpenRouter) and callOllama.               *)
(*                                                                         *)
(* JavaScript values are written as strings: "null", "undefined", the      *)
(* number zero "0", objects in literal notation.  One step of the model is *)
(* one run of JavaScript between two suspension points (a backend request  *)
(* or a timer).                                                            *)
(***************************************************************************)
EXTENDS Integers, Sequences, FiniteSets, TLC

\* calls, cache, lastRateLimitedGeminiModelIndex: the dispatcher and its adapters.
\* fnInput, fnOutput: the arguments handed to one of the pure functions of the
\* repository and the value it returned (<<>> before the call).
VARIABLES calls, cache, lastRateLimitedGeminiModelIndex, fnInput, fnOutput

vars == <<calls, cache, lastRateLimitedGeminiModelIndex, fnInput, fnOutput>>

\* ------------------------------------------------------------ bounds
\* total number of backend invocations followed in one behaviour
MaxInv == 3

\* ------------------------------------------------------------ JS values
Null == "null"
Undefined == "undefined"
Unsettled == "(pending)"

\* JavaScript truthiness of a cached value: `if (cachedResponse)`
Truthy(v) == v \notin {Undefined, Null, "0", "", "false"}

\* ------------------------------------------------------------ backends
\* the built-in Gemini priority list
geminiModels == <<"gemini-3-flash", "gemini-2.5-flash", "gemini-2.5-flash-lite">>

\* default model of callGeminiModel when model === null (bestModel)
GeminiBestModel == "gemini-2.5-flash"
\* default model of _callOpenAI
OpenAIDefaultModel == "gpt-4o-mini"
\* default model of callOllama
OllamaDefaultModel == "llama3.2"

\* model ids used by the requests of the model
ModelA == "gemini-2.0-flash"
ModelB == "qwen/qwen3-235b-a22b:free"
ModelC == "openai/gpt-5-mini"

\* modelInput.model.includes("/")
IncludesSlash(m) == m \in {ModelB, ModelC}

\* response texts of a backend
TextObj3 == "{\"result\":3}"
TextZero == "0"
TextBad == "Sure! Here is the result: 3"
Texts == {TextObj3, TextZero, TextBad}

\* JSON.parse: the texts that parse, and their values
IsJSON(t) == t \in {TextObj3, TextZero}
JSONParse(t) ==
  CASE t = TextObj3 -> "{result:3}"
    [] t = TextZero -> "0"
    [] OTHER -> Undefined

\* values a successful backend invocation can hand to aiTask
Payloads == {"{result:3}", "0"} \cup Texts

\* retry hint of a 429: seconds of the RetryInfo detail, or none
NoRetryInfo == 0 - 1
RetryHints == {NoRetryInfo, 5}

\* statuses of a failed backend request: rate limit, overload, anything else
OverloadStatuses == {499, 503}
OtherStatuses == {500}

\* what a backend request can come back with: a response text (status 200) or
\* an error carrying a status
Ok(t) == [status |-> 200, text |-> t, retryDelay |-> NoRetryInfo]
Err(s, r) == [status |-> s, text |-> "", retryDelay |-> r]
Outcomes ==
  {Ok(t) : t \in Texts}
    \cup {Err(429, r) : r \in RetryHints}
    \cup {Err(s, NoRetryInfo) : s \in OverloadStatuses \cup OtherStatuses}

\* the OpenAI-compatible and Ollama backends give no retry hint that the
\* adapters read
PlainOutcomes ==
  {Ok(t) : t \in Texts} \cup {Err(429, NoRetryInfo)}
    \cup {Err(s, NoRetryInfo) : s \in OtherStatuses}

\* ------------------------------------------------------------ requests
NoProvider == "none"
ProviderFn == "function"

\* the config objects passed to aiTask; model is <<>> when absent, <<m>> when
\* scalar.  localOnly is the positional argument, cfgLocalOnly the field of the
\* config object.
Req(kind, model, provider, localOnly, bestModel) ==
  [modelKind |-> kind, model |-> model, provider |-> provider,
   localOnly |-> localOnly, bestModel |-> bestModel,
   outputFormat |-> "json_object", cfgLocalOnly |-> FALSE]

Requests ==
  {Req("none", <<>>, NoProvider, FALSE, FALSE),
   Req("none", <<>>, "gemini", FALSE, FALSE),
   Req("none", <<>>, "openai", FALSE, FALSE),
   Req("none", <<>>, ProviderFn, FALSE, FALSE),
   Req("none", <<>>, NoProvider, FALSE, TRUE),
   Req("none", <<>>, NoProvider, TRUE, FALSE),
   Req("scalar", <<ModelA>>, NoProvider, FALSE, FALSE),
   Req("scalar", <<ModelA>>, "openai", FALSE, FALSE),
   Req("scalar", <<ModelB>>, NoProvider, FALSE, FALSE),
   Req("scalar", <<ModelB>>, NoProvider, TRUE, FALSE),
   Req("scalar", <<ModelB>>, "openai", FALSE, FALSE),
   Req("scalar", <<ModelB>>, ProviderFn, FALSE, FALSE),
   [Req("none", <<>>, NoProvider, FALSE, FALSE) EXCEPT !.cfgLocalOnly = TRUE],
   Req("list", <<ModelA>>, NoProvider, FALSE, FALSE),
   Req("list", <<ModelA, ModelB, ModelC>>, NoProvider, FALSE, FALSE),
   Req("list", <<ModelB, ModelC, ModelA>>, NoProvider, FALSE, FALSE),
   Req("list", <<ModelB, ModelC>>, NoProvider, TRUE, FALSE)}

Calls == {1, 2}

\* ------------------------------------------------------------ cache
\* flat-cache: get of a key never set is undefined
CacheGet(c, h) == IF h \in DOMAIN c THEN c[h] ELSE Undefined
\* a cache that keeps the first value written under a key
CacheSet_FirstWriteWins(c, h, v) ==
  [x \in DOMAIN c \cup {h} |-> IF x \in DOMAIN c THEN c[x] ELSE v]
CacheSet(c, h, v) == [x \in DOMAIN c \cup {h} |-> IF x = h THEN v ELSE c[x]]

\* hashQuery(modelInput): sha256 of JSON.stringify(modelInput), the digest taken
\* as injective.  JSON.stringify leaves out undefined and function values; the
\* positional localOnly argument is not a field of modelInput.
hashQuery(st) ==
  [model |-> st.model,
   provider |-> IF st.provider \in {NoProvider, ProviderFn} THEN Undefined ELSE st.provider,
   bestModel |-> st.bestModel,
   outputFormat |-> st.outputFormat,
   localOnly |-> st.cfgLocalOnly]

\* the hash field of a call that has not computed its fingerprint yet
NoHash ==
  [model |-> "(none)", provider |-> Undefined, bestModel |-> FALSE,
   outputFormat |-> "(none)", localOnly |-> FALSE]

\* ------------------------------------------------------------ one call
\* the state of an aiTask call before it is made
Idle ==
  [pc |-> "idle", modelKind |-> "none", list |-> <<>>, provider |-> NoProvider,
   bestModel |-> FALSE, outputFormat |-> "json_object", callerLocalOnly |-> FALSE,
   cfgLocalOnly |-> FALSE,
   model |-> Undefined, remainingModels |-> <<>>, hasRemaining |-> FALSE,
   localOnly |-> FALSE, hash |-> NoHash, adapter |-> "none", target |-> "none",
   walking |-> FALSE, modelIndex |-> 0, OverloadErrorRetry |-> 0, wait |-> 0,
   log |-> <<>>, result |-> Unsettled, saveThrew |-> FALSE]

\* a backend request is issued: the call is suspended until the answer
Invoke(st, adapter, target) ==
  [st EXCEPT !.pc = "inflight", !.adapter = adapter, !.target = target, !.wait = 0,
             !.log = Append(st.log, [adapter |-> adapter, model |-> target,
                                     status |-> 0, text |-> "",
                                     retryDelay |-> NoRetryInfo, wait |-> st.wait])]

\* the answer o is recorded on the invocation in flight
Answered(st, o) ==
  [st EXCEPT !.log[Len(st.log)] =
     [@ EXCEPT !.status = o.status, !.text = o.text, !.retryDelay = o.retryDelay]]

\* callGemini, up to its first backend request
callGemini(st, cursor) ==
  IF st.model # Undefined \/ st.bestModel
  THEN Invoke([st EXCEPT !.walking = FALSE, !.OverloadErrorRetry = 0], "gemini",
              IF st.model = Undefined THEN GeminiBestModel ELSE st.model)
  ELSE Invoke([st EXCEPT !.walking = TRUE, !.modelIndex = cursor,
                         !.OverloadErrorRetry = 0], "gemini", geminiModels[cursor + 1])

\* the provider selection with the provider id tested before the "/" of the model
Dispatch_ProviderIdFirst(st, cursor) ==
  IF st.localOnly
  THEN Invoke(st, "ollama", IF st.model = Undefined THEN OllamaDefaultModel ELSE st.model)
  ELSE IF st.provider = ProviderFn
  THEN Invoke(st, "callback", st.model)
  ELSE IF st.provider = "openai"
  THEN Invoke(st, "openai", OpenAIDefaultModel)
  ELSE IF st.model # Undefined /\ IncludesSlash(st.model)
  THEN Invoke(st, "openrouter", st.model)
  ELSE callGemini(st, cursor)

\* the provider selection of aiTask
Dispatch(st, cursor) ==
  IF st.localOnly
  THEN Invoke(st, "ollama", IF st.model = Undefined THEN OllamaDefaultModel ELSE st.model)
  ELSE IF st.provider = ProviderFn
  THEN Invoke(st, "callback", st.model)
  ELSE IF st.model # Undefined /\ IncludesSlash(st.model)
  THEN Invoke(st, "openrouter", st.model)
  ELSE IF st.provider \in {NoProvider, "gemini"}
  THEN callGemini(st, cursor)
  ELSE Invoke(st, "openai", OpenAIDefaultModel)

\* one activation of aiTask: the normalisation of the config, the fingerprint
\* and the cache lookup, then the dispatch
aiTask(st, modelIsArray, array, scalar, localOnly, c, cursor) ==
  LET s1 == [st EXCEPT
               !.model = IF modelIsArray
                         THEN (IF array = <<>> THEN Undefined ELSE Head(array))
                         ELSE scalar,
               !.remainingModels = IF modelIsArray /\ array # <<>> THEN Tail(array) ELSE <<>>,
               !.hasRemaining = modelIsArray,
               !.localOnly = localOnly]
      s2 == [s1 EXCEPT !.hash = hashQuery(s1)]
      cachedResponse == CacheGet(c, s2.hash)
  IN  IF Truthy(cachedResponse)
      THEN [st |-> [s2 EXCEPT !.pc = "done", !.result = cachedResponse], cache |-> c]
      ELSE [st |-> Dispatch(s2, cursor), cache |-> c]

\* the catch block of aiTask
Catch(st, c, cursor) ==
  IF st.hasRemaining
  THEN aiTask(st, TRUE, st.remainingModels, Undefined, FALSE, c, cursor)
  ELSE [st |-> [st EXCEPT !.pc = "done", !.result = Null], cache |-> c]

\* aiTask going on to the remaining models although its adapter returned a payload
Returned_TriesRemainingAfterSuccess(st, responseContent, saveThrows, c, cursor) ==
  IF (~st.localOnly /\ responseContent = Null) \/ st.remainingModels # <<>>
  THEN Catch(st, c, cursor)
  ELSE LET c2 == CacheSet(c, st.hash, responseContent)
       IN  IF saveThrows
           THEN Catch([st EXCEPT !.saveThrew = TRUE], c2, cursor)
           ELSE [st |-> [st EXCEPT !.pc = "done", !.result = responseContent],
                 cache |-> c2]

\* aiTask after its adapter has returned responseContent
Returned(st, responseContent, saveThrows, c, cursor) ==
  IF ~st.localOnly /\ responseContent = Null
  THEN Catch(st, c, cursor)
  ELSE LET c2 == CacheSet(c, st.hash, responseContent)
       IN  IF saveThrows
           THEN Catch([st EXCEPT !.saveThrew = TRUE], c2, cursor)
           ELSE [st |-> [st EXCEPT !.pc = "done", !.result = responseContent],
                 cache |-> c2]

\* ------------------------------------------------------------ adapters
\* rateLimitRetryDelay with the seconds of the hint taken for milliseconds
rateLimitRetryDelay_NoScaling(retryDelay) ==
  LET defaultDelaySeconds == 30
      delaySeconds == IF retryDelay # NoRetryInfo THEN retryDelay ELSE defaultDelaySeconds
  IN  delaySeconds + 250

\* rateLimitRetryDelay with the default taken for a lower limit of the hint
rateLimitRetryDelay_AtLeastDefault(retryDelay) ==
  LET defaultDelaySeconds == 30
      delaySeconds == IF retryDelay > defaultDelaySeconds THEN retryDelay
                      ELSE defaultDelaySeconds
  IN  (delaySeconds * 1000) + 250

\* rateLimitRetryDelay(error), in milliseconds
rateLimitRetryDelay(retryDelay) ==
  LET defaultDelaySeconds == 30
      delaySeconds == IF retryDelay # NoRetryInfo THEN retryDelay ELSE defaultDelaySeconds
  IN  (delaySeconds * 1000) + 250

\* setTimeout(resolve, ms): the call is suspended until the timer fires
Sleep(st, ms) == [st EXCEPT !.pc = "sleep", !.wait = ms]

\* callGemini invoking the rate-limited entry of its walk again, without advancing
GeminiAnswer_NoAdvance(st, o, saveThrows, c, cursor) ==
  IF o.status = 200
  THEN \* JSON.parse throws on a text that is no JSON: the outer catch logs it
       \* and returns null
       LET output == IF st.outputFormat = "json_object"
                     THEN (IF IsJSON(o.text) THEN JSONParse(o.text) ELSE Null)
                     ELSE o.text
       IN  Returned(st, output, saveThrows, c, cursor)
  ELSE IF o.status = 429
  THEN IF ~st.walking
       THEN [st |-> Sleep([st EXCEPT !.OverloadErrorRetry = 0],
                          rateLimitRetryDelay(o.retryDelay) + 1000),
             cache |-> c]
       ELSE [st |-> Invoke([st EXCEPT !.OverloadErrorRetry = 0], "gemini", st.target),
             cache |-> c]
  ELSE IF o.status \in {499, 503}
  THEN [st |-> Sleep([st EXCEPT !.OverloadErrorRetry = @ + 1],
                     (st.OverloadErrorRetry + 1) * 10000),
        cache |-> c]
  ELSE Returned(st, Null, saveThrows, c, cursor)

\* callGeminiModel waiting 10 seconds before every retry of an overloaded model
GeminiAnswer_FlatBackoff(st, o, saveThrows, c, cursor) ==
  IF o.status = 200
  THEN \* JSON.parse throws on a text that is no JSON: the outer catch logs it
       \* and returns null
       LET output == IF st.outputFormat = "json_object"
                     THEN (IF IsJSON(o.text) THEN JSONParse(o.text) ELSE Null)
                     ELSE o.text
       IN  Returned(st, output, saveThrows, c, cursor)
  ELSE IF o.status = 429
  THEN IF ~st.walking
       THEN [st |-> Sleep([st EXCEPT !.OverloadErrorRetry = 0],
                          rateLimitRetryDelay(o.retryDelay) + 1000),
             cache |-> c]
       ELSE IF st.modelIndex + 1 < Len(geminiModels)
       THEN [st |-> Invoke([st EXCEPT !.modelIndex = @ + 1, !.OverloadErrorRetry = 0],
                           "gemini", geminiModels[st.modelIndex + 2]),
             cache |-> c]
       ELSE Returned(st, Undefined, saveThrows, c, cursor)
  ELSE IF o.status \in {499, 503}
  THEN [st |-> Sleep([st EXCEPT !.OverloadErrorRetry = @ + 1],
                     10000),
        cache |-> c]
  ELSE Returned(st, Null, saveThrows, c, cursor)

\* callGeminiModel retrying after every error that is no rate limit
GeminiAnswer_RetryAnyError(st, o, saveThrows, c, cursor) ==
  IF o.status = 200
  THEN \* JSON.parse throws on a text that is no JSON: the outer catch logs it
       \* and returns null
       LET output == IF st.outputFormat = "json_object"
                     THEN (IF IsJSON(o.text) THEN JSONParse(o.text) ELSE Null)
                     ELSE o.text
       IN  Returned(st, output, saveThrows, c, cursor)
  ELSE IF o.status = 429
  THEN IF ~st.walking
       THEN [st |-> Sleep([st EXCEPT !.OverloadErrorRetry = 0],
                          rateLimitRetryDelay(o.retryDelay) + 1000),
             cache |-> c]
       ELSE IF st.modelIndex + 1 < Len(geminiModels)
       THEN [st |-> Invoke([st EXCEPT !.modelIndex = @ + 1, !.OverloadErrorRetry = 0],
                           "gemini", geminiModels[st.modelIndex + 2]),
             cache |-> c]
       ELSE Returned(st, Undefined, saveThrows, c, cursor)
  ELSE IF o.status \in {499, 503} \cup OtherStatuses
  THEN [st |-> Sleep([st EXCEPT !.OverloadErrorRetry = @ + 1],
                     (st.OverloadErrorRetry + 1) * 10000),
        cache |-> c]
  ELSE Returned(st, Null, saveThrows, c, cursor)

\* callGeminiModel and callGemini on the answer o of the backend
GeminiAnswer(st, o, saveThrows, c, cursor) ==
  IF o.status = 200
  THEN \* JSON.parse throws on a text that is no JSON: the outer catch logs it
       \* and returns null
       LET output == IF st.outputFormat = "json_object"
                     THEN (IF IsJSON(o.text) THEN JSONParse(o.text) ELSE Null)
                     ELSE o.text
       IN  Returned(st, output, saveThrows, c, cursor)
  ELSE IF o.status = 429
  THEN IF ~st.walking
       THEN [st |-> Sleep([st EXCEPT !.OverloadErrorRetry = 0],
                          rateLimitRetryDelay(o.retryDelay) + 1000),
             cache |-> c]
       ELSE IF st.modelIndex + 1 < Len(geminiModels)
       THEN [st |-> Invoke([st EXCEPT !.modelIndex = @ + 1, !.OverloadErrorRetry = 0],
                           "gemini", geminiModels[st.modelIndex + 2]),
             cache |-> c]
       ELSE Returned(st, Undefined, saveThrows, c, cursor)
  ELSE IF o.status \in {499, 503}
  THEN [st |-> Sleep([st EXCEPT !.OverloadErrorRetry = @ + 1],
                     (st.OverloadErrorRetry + 1) * 10000),
        cache |-> c]
  ELSE Returned(st, Null, saveThrows, c, cursor)

\* _callOpenAI invoking its backend again after a 429
OpenAIAnswer_RetryRateLimited(st, o, saveThrows, c, cursor) ==
  IF o.status = 200
  THEN Returned(st, IF IsJSON(o.text) THEN JSONParse(o.text) ELSE Undefined,
                saveThrows, c, cursor)
  ELSE IF o.status = 429
  THEN [st |-> Invoke(st, st.adapter, st.target), cache |-> c]
  ELSE Returned(st, Null, saveThrows, c, cursor)

\* _callOpenAI (callOpenAI, callOpenRouter) on the answer o of the backend
OpenAIAnswer(st, o, saveThrows, c, cursor) ==
  IF o.status = 200
  THEN Returned(st, IF IsJSON(o.text) THEN JSONParse(o.text) ELSE Undefined,
                saveThrows, c, cursor)
  ELSE Returned(st, Null, saveThrows, c, cursor)

\* callOllama on the answer o of the backend
OllamaAnswer(st, o, saveThrows, c, cursor) ==
  IF o.status = 200
  THEN Returned(st,
                IF st.outputFormat = "json_object"
                THEN (IF IsJSON(o.text) THEN JSONParse(o.text) ELSE Null)
                ELSE o.text,
                saveThrows, c, cursor)
  ELSE Returned(st, Null, saveThrows, c, cursor)

\* ------------------------------------------------------------ actions
TotalInv(cs) == Len(cs[1].log) + Len(cs[2].log)

Step(c, res) ==
  /\ calls' = [calls EXCEPT ![c] = res.st]
  /\ cache' = res.cache
  /\ TotalInv(calls') <= MaxInv
  /\ UNCHANGED <<lastRateLimitedGeminiModelIndex, fnInput, fnOutput>>

\* a caller calls aiTask(config, ..., localOnly); call 2 is the later of the two
AiTaskCall(c, r) ==
  /\ calls[c].pc = "idle"
  /\ c = 2 => calls[1].pc # "idle"
  /\ Step(c, aiTask([Idle EXCEPT !.modelKind = r.modelKind, !.list = r.model,
                                 !.provider = r.provider, !.bestModel = r.bestModel,
                                 !.outputFormat = r.outputFormat,
                                 !.callerLocalOnly = r.localOnly,
                                 !.cfgLocalOnly = r.cfgLocalOnly],
                    r.modelKind = "list", r.model,
                    IF r.modelKind = "scalar" THEN r.model[1] ELSE Undefined,
                    r.localOnly, cache, lastRateLimitedGeminiModelIndex))

\* the Gemini backend answers the request in flight
GeminiResponds(c, o, saveThrows) ==
  /\ calls[c].pc = "inflight"
  /\ calls[c].adapter = "gemini"
  /\ Step(c, GeminiAnswer(Answered(calls[c], o), o, saveThrows, cache,
                          lastRateLimitedGeminiModelIndex))

\* the OpenAI or OpenRouter backend answers the request in flight
OpenAIResponds(c, o, saveThrows) ==
  /\ calls[c].pc = "inflight"
  /\ calls[c].adapter \in {"openai", "openrouter"}
  /\ Step(c, OpenAIAnswer(Answered(calls[c], o), o, saveThrows, cache,
                          lastRateLimitedGeminiModelIndex))

\* the Ollama backend answers the request in flight
OllamaResponds(c, o, saveThrows) ==
  /\ calls[c].pc = "inflight"
  /\ calls[c].adapter = "ollama"
  /\ Step(c, OllamaAnswer(Answered(calls[c], o), o, saveThrows, cache,
                          lastRateLimitedGeminiModelIndex))

\* the provider callback of the request returns v, or throws
ProviderReturns(c, v, throws, saveThrows) ==
  /\ calls[c].pc = "inflight"
  /\ calls[c].adapter = "callback"
  /\ LET st == Answered(calls[c], IF throws THEN Err(500, NoRetryInfo) ELSE Ok(v))
     IN  Step(c, IF throws
                 THEN Catch(st, cache, lastRateLimitedGeminiModelIndex)
                 ELSE Returned(st, v, saveThrows, cache,
                               lastRateLimitedGeminiModelIndex))

\* the timer of a backoff sleep fires: the same Gemini model is invoked again
TimerFires(c) ==
  /\ calls[c].pc = "sleep"
  /\ Step(c, [st |-> Invoke(calls[c], "gemini", calls[c].target), cache |-> cache])

Init ==
  /\ calls = [c \in Calls |-> Idle]
  /\ cache = <<>>
  /\ lastRateLimitedGeminiModelIndex = 0
  /\ fnInput = <<>>
  /\ fnOutput = <<>>

Next ==
  \/ \E c \in Calls, r \in Requests : AiTaskCall(c, r)
  \/ \E c \in Calls, o \in Outcomes, saveThrows \in BOOLEAN : GeminiResponds(c, o, saveThrows)
  \/ \E c \in Calls, o \in PlainOutcomes, saveThrows \in BOOLEAN : OpenAIResponds(c, o, saveThrows)
  \/ \E c \in Calls, o \in PlainOutcomes, saveThrows \in BOOLEAN : OllamaResponds(c, o, saveThrows)
  \/ \E c \in Calls, v \in {"{result:3}", Null}, throws \in BOOLEAN,
        saveThrows \in BOOLEAN : ProviderReturns(c, v, throws, saveThrows)
  \/ \E c \in Calls : TimerFires(c)

Spec == Init /\ [][Next]_vars

\* ------------------------------------------------------------ vocabulary of the claims
Log(c) == calls[c].log
Done(c) == calls[c].pc = "done"
IsList(c) == calls[c].pc # "idle" /\ calls[c].modelKind = "list"
IsScalar(c) == calls[c].pc # "idle" /\ calls[c].modelKind = "scalar"
ListOf(c) == calls[c].list
Range(q) == {q[i] : i \in DOMAIN q}
\* the invocation has been answered (status 0: still in flight)
WasAnswered(e) == e.status # 0
RateLimited(e) == e.status = 429
Fatal(e) == e.status \in OtherStatuses
\* the backend answered with a text that parses as the structured output
Succeeded(e) == e.status = 200 /\ IsJSON(e.text)
Unparsable(e) == e.status = 200 /\ ~IsJSON(e.text)
\* c enters aiTask in this step
Enters(c) == calls[c].pc = "idle" /\ calls'[c].pc # "idle"
\* the two calls were made with the same field values
SameRequest(a, b) ==
  /\ a.modelKind = b.modelKind /\ a.list = b.list /\ a.provider = b.provider
  /\ a.bestModel = b.bestModel /\ a.outputFormat = b.outputFormat
  /\ a.callerLocalOnly = b.callerLocalOnly
  /\ a.cfgLocalOnly = b.cfgLocalOnly

\* ------------------------------------------------------------ claims

\* C1: if the cache holds a payload under the fingerprint of the request, aiTask
\* returns that payload and invokes no provider adapter during the call.
C1_CacheHitInvokesNoAdapter ==
  [][\A c \in Calls :
       (Enters(c) /\ CacheGet(cache, calls'[c].hash) \in Payloads)
         => /\ calls'[c].pc = "done"
            /\ calls'[c].result = CacheGet(cache, calls'[c].hash)
            /\ calls'[c].log = <<>>]_vars

\* C2: after a call has returned a payload obtained from a backend, a second
\* call with the same field values returns the same payload and invokes no
\* backend, whichever candidate of the list produced the payload.  (Stated for
\* the payloads that the cache lookup recognises as present.)
C2_SecondCallIsServedFromCache ==
  [][\A c, d \in Calls :
       (/\ c # d
        /\ Done(c) /\ Log(c) # <<>> /\ Succeeded(Log(c)[Len(Log(c))])
        /\ calls[c].result \in Payloads /\ Truthy(calls[c].result)
        /\ Enters(d) /\ SameRequest(calls'[d], calls[c]))
         => /\ calls'[d].pc = "done"
            /\ calls'[d].result = calls[c].result
            /\ calls'[d].log = <<>>]_vars

\* C3: with model = [A, B, C], A and B answering RateLimited and C succeeding,
\* the models are invoked in the order A, B, C, each exactly once: a
\* rate-limited entry is not invoked again.
C3_RateLimitedEntryAdvances ==
  \A c \in Calls :
    (/\ IsList(c) /\ Len(ListOf(c)) = 3
     /\ \A i \in DOMAIN Log(c) :
          /\ (Log(c)[i].model \in {ListOf(c)[1], ListOf(c)[2]} /\ WasAnswered(Log(c)[i]))
               => RateLimited(Log(c)[i])
          /\ (Log(c)[i].model = ListOf(c)[3] /\ WasAnswered(Log(c)[i]))
               => Succeeded(Log(c)[i])
     /\ ~calls[c].saveThrew)
      => /\ Len(Log(c)) <= 3
         /\ \A i \in DOMAIN Log(c) : Log(c)[i].model = ListOf(c)[i]

\* the request gives a scalar model and nothing else that selects a backend
ScalarOnly(c) ==
  IsScalar(c) /\ ~calls[c].callerLocalOnly /\ calls[c].provider = NoProvider

\* the retry discipline of C4 on the invocations of call c: only model A is
\* contacted, a retry waits at least the hinted seconds, the call does not end
\* on one of the two rate-limited attempts, and it ends on the third with
\* `value` as its result
PinnedRetry(c, value) ==
  /\ \A i \in DOMAIN Log(c) : Log(c)[i].model = ListOf(c)[1]
  /\ \A i \in 2..Len(Log(c)) :
       (RateLimited(Log(c)[i - 1]) /\ Log(c)[i - 1].retryDelay # NoRetryInfo)
         => Log(c)[i].wait >= Log(c)[i - 1].retryDelay * 1000
  /\ (/\ Len(Log(c)) \in {1, 2}
      /\ \A i \in DOMAIN Log(c) : RateLimited(Log(c)[i]))
       => ~Done(c)
  /\ (/\ Len(Log(c)) >= 3
      /\ RateLimited(Log(c)[1]) /\ RateLimited(Log(c)[2]) /\ Succeeded(Log(c)[3]))
       => /\ Len(Log(c)) = 3
          /\ Done(c)
          /\ calls[c].result = value

\* C4 as stated: for every scalar model A answering RateLimited(r) twice and then
\* succeeding, A is invoked exactly 3 times, each retry at least r seconds after
\* the failure, no other model is contacted, and the third payload is returned.
C4_PinnedRetry_AnyModel ==
  \A c \in Calls :
    ScalarOnly(c) => PinnedRetry(c, JSONParse(Log(c)[3].text))

\* C4 amended: the same for a scalar model id without "/", which is the case
\* served by the Gemini adapter; the result is null when the cache write of the
\* third payload throws.
C4_PinnedRetry_Gemini ==
  \A c \in Calls :
    (ScalarOnly(c) /\ ~IncludesSlash(ListOf(c)[1]))
      => PinnedRetry(c, IF calls[c].saveThrew THEN Null ELSE JSONParse(Log(c)[3].text))

\* a call with a scalar Gemini model has ended after two rate-limited attempts
\* (hint 5 s) and a third, successful one
C4_Witness ==
  \E c \in Calls :
    /\ ScalarOnly(c) /\ ~IncludesSlash(ListOf(c)[1]) /\ Done(c)
    /\ Len(Log(c)) = 3
    /\ RateLimited(Log(c)[1]) /\ Log(c)[1].retryDelay = 5
    /\ RateLimited(Log(c)[2]) /\ Log(c)[2].retryDelay = 5
    /\ Log(c)[3].text = TextObj3
    /\ Log(c)[3].wait >= 5000
    /\ calls[c].result = "{result:3}"

\* C5: against a backend that always returns unparsable text, the same candidate
\* is attempted exactly 4 times and the call then resolves to null.
C5_MalformedOutputFourAttempts ==
  \A c \in Calls :
    (/\ calls[c].modelKind # "list" /\ Done(c) /\ Log(c) # <<>>
     /\ \A i \in DOMAIN Log(c) : Unparsable(Log(c)[i]))
      => /\ Len(Log(c)) = 4
         /\ \A i \in DOMAIN Log(c) : Log(c)[i].model = Log(c)[1].model
         /\ calls[c].result = Null

\* C6: if every candidate of an explicit list fails Fatal on every invocation,
\* the call ends: once every entry of the list has failed, it has resolved to
\* null and no further backend is invoked.
C6_ExhaustedListEndsTheCall ==
  \A c \in Calls :
    (/\ IsList(c) /\ ListOf(c) # <<>>
     /\ \A i \in DOMAIN Log(c) : WasAnswered(Log(c)[i]) => Fatal(Log(c)[i])
     /\ \A j \in DOMAIN ListOf(c) :
          \E i \in DOMAIN Log(c) : Log(c)[i].model = ListOf(c)[j] /\ WasAnswered(Log(c)[i]))
      => /\ Done(c)
         /\ calls[c].result = Null
         /\ Len(Log(c)) = Len(ListOf(c))

\* C7: during a call with an explicit model list every backend invocation
\* targets a model of the list, also after the last entry has failed.
C7_OnlyListedModelsContacted ==
  \A c \in Calls :
    IsList(c) => \A i \in DOMAIN Log(c) : Log(c)[i].model \in Range(ListOf(c))

\* C8: a call with an explicit model list resolves without a payload only after
\* every listed model has been attempted, whatever the failures were.
C8_NoPayloadOnlyAfterAllListed ==
  \A c \in Calls :
    (IsList(c) /\ Done(c) /\ calls[c].result \notin Payloads)
      => \A j \in DOMAIN ListOf(c) :
           \E i \in DOMAIN Log(c) : Log(c)[i].model = ListOf(c)[j]

\* C9: the promise of aiTask never rejects and resolves to a payload or to
\* null: every call that has ended has one of these as its value.
C9_ResolvesToPayloadOrNull ==
  \A c \in Calls : Done(c) => calls[c].result \in Payloads \cup {Null}

\* C10: a call that ends without a successful backend payload resolves to
\* exactly null: when the backend failed fatally, when every entry of the
\* default priority list was rate-limited, and when the OpenAI-compatible
\* adapter could not parse the response.
C10_FailureResolvesToNull ==
  \A c \in Calls :
    (/\ Done(c) /\ Log(c) # <<>>
     /\ LET last == Log(c)[Len(Log(c))]
        IN  \/ Fatal(last)
            \/ (calls[c].walking /\ RateLimited(last))
            \/ (last.adapter \in {"openai", "openrouter"} /\ Unparsable(last)))
      => calls[c].result = Null

\* the invocation ended with a payload: a text that parses, or the value a
\* provider callback returned
GavePayload(e) ==
  /\ e.status = 200
  /\ IF e.adapter = "callback" THEN e.text \in Payloads ELSE IsJSON(e.text)
PayloadOf(e) == IF e.adapter = "callback" THEN e.text ELSE JSONParse(e.text)
\* the step writes the cache entry of fingerprint h
Writes(h) == h \notin DOMAIN cache \/ cache'[h] # cache[h]

\* C11: the cache is written only on success: every cache write stores, under
\* the fingerprint of the attempted request, the payload of a successful backend
\* invocation; a failed local-only call, an exhausted default priority list and
\* an unparsable response write nothing.
C11_CacheWrittenOnlyOnSuccess ==
  [][\A h \in DOMAIN cache' :
       Writes(h) =>
         \E c \in Calls :
           /\ calls[c].pc = "inflight" /\ calls[c].hash = h
           /\ LET last == calls'[c].log[Len(calls[c].log)]
              IN  GavePayload(last) /\ cache'[h] = PayloadOf(last)]_vars

\* the request in flight of call c carries a model id with "/"
SlashInFlight(c) ==
  calls[c].pc = "inflight" /\ calls[c].model # Undefined /\ IncludesSlash(calls[c].model)

\* C12 as stated: a request whose model id contains "/" is always dispatched to
\* the OpenRouter adapter, whatever its provider id, provider callback or
\* localOnly are.
C12_SlashAlwaysOpenRouter ==
  \A c \in Calls : SlashInFlight(c) => calls[c].adapter = "openrouter"

\* C12 amended: a request whose model id contains "/" is dispatched to the
\* OpenRouter adapter with that model id, whatever its provider id is, unless
\* the positional localOnly is true or the provider is a callback.
C12_SlashOpenRouterUnlessLocalOrCallback ==
  \A c \in Calls :
    (SlashInFlight(c) /\ ~calls[c].localOnly /\ calls[c].provider # ProviderFn)
      => /\ calls[c].adapter = "openrouter"
         /\ calls[c].target = calls[c].model

\* a request with a "/" model and provider 'openai' is in flight at OpenRouter
C12_Witness ==
  \E c \in Calls :
    /\ SlashInFlight(c) /\ calls[c].provider = "openai" /\ ~calls[c].localOnly
    /\ calls[c].adapter = "openrouter" /\ calls[c].target = ModelB

\* C13: a request with localOnly true, given as the positional argument or as a
\* field of the config object, is dispatched to the Ollama adapter and to no
\* other backend.
C13_LocalOnlyContactsOnlyOllama ==
  \A c \in Calls :
    (calls[c].callerLocalOnly \/ calls[c].cfgLocalOnly)
      => \A i \in DOMAIN Log(c) : Log(c)[i].adapter = "ollama"

\* the request gives a provider id and no model
ProviderIdOnly(c, ids) ==
  /\ calls[c].pc # "idle" /\ calls[c].modelKind = "none"
  /\ calls[c].provider \in ids /\ ~calls[c].callerLocalOnly

RateLimitedPrefix(c) ==
  Cardinality({i \in DOMAIN Log(c) : \A j \in 1..i : RateLimited(Log(c)[j])})

\* C15: the last rate-limited index of the default priority list is kept
\* process-wide: after a call in which the first k entries of the list answered
\* RateLimited, a later call for another request starts its walk at entry k and
\* does not contact the entries 0..k-1.
C15_CursorPersistsAcrossCalls ==
  [][\A c, d \in Calls :
       (/\ c # d
        /\ Done(c) /\ calls[c].modelKind = "none" /\ calls[c].walking
        /\ RateLimitedPrefix(c) \in 1..(Len(geminiModels) - 1)
        /\ Enters(d) /\ calls'[d].pc = "inflight" /\ calls'[d].walking
        /\ calls'[d].hash # calls[c].hash)
         => calls'[d].log[1].model = geminiModels[RateLimitedPrefix(c) + 1]]_vars

\* the request gives neither model nor provider and is not sent to Ollama
NoModelNoProvider(c) ==
  /\ calls[c].pc # "idle" /\ calls[c].modelKind = "none"
  /\ calls[c].provider = NoProvider /\ ~calls[c].callerLocalOnly
\* the position of model m in the default priority list (1-based)
IndexOf(m) == CHOOSE i \in DOMAIN geminiModels : geminiModels[i] = m

\* the walk of the default priority list, read off the invocations of call c:
\* it starts at the cursor index; after a RateLimited answer the next entry is
\* invoked at once; nothing but a rate limit or an overload is followed by
\* another invocation; a response or a Fatal error ends the call, a parsed
\* response being its result
WalksDefaultList(c) ==
  /\ Log(c) # <<>>
       => Log(c)[1].model = geminiModels[lastRateLimitedGeminiModelIndex + 1]
  /\ \A i \in 2..Len(Log(c)) :
       IF RateLimited(Log(c)[i - 1])
       THEN /\ IndexOf(Log(c)[i - 1].model) < Len(geminiModels)
            /\ Log(c)[i].model = geminiModels[IndexOf(Log(c)[i - 1].model) + 1]
            /\ Log(c)[i].wait = 0
       ELSE /\ Log(c)[i - 1].status \in OverloadStatuses
            /\ Log(c)[i].model = Log(c)[i - 1].model
  /\ \A i \in DOMAIN Log(c) :
       (Log(c)[i].status = 200 \/ Fatal(Log(c)[i]))
         => /\ i = Len(Log(c)) /\ Done(c)
            /\ (Succeeded(Log(c)[i]) /\ ~calls[c].saveThrew)
                 => calls[c].result = JSONParse(Log(c)[i].text)
            /\ ~Succeeded(Log(c)[i]) => calls[c].result = Null

\* C16 as stated: with neither model nor provider given, the Gemini adapter
\* walks its priority list in list order from the cursor index: a RateLimited
\* outcome advances to the next entry without retrying, the first success ends
\* the walk and is returned, a non-rate-limit failure ends the walk.
C16_NoModelNoProviderWalks ==
  \A c \in Calls : NoModelNoProvider(c) => WalksDefaultList(c)

\* C16 amended: the same for a request that does not set bestModel either.
C16_WalkUnlessBestModel ==
  \A c \in Calls :
    (NoModelNoProvider(c) /\ ~calls[c].bestModel) => WalksDefaultList(c)

\* a walk that advanced past a rate-limited first entry and ended with the
\* payload of the second
C16_Witness ==
  \E c \in Calls :
    /\ NoModelNoProvider(c) /\ ~calls[c].bestModel /\ Done(c)
    /\ Len(Log(c)) = 2
    /\ Log(c)[1].model = geminiModels[1] /\ RateLimited(Log(c)[1])
    /\ Log(c)[2].model = geminiModels[2] /\ Log(c)[2].text = TextObj3
    /\ calls[c].result = "{result:3}"

\* every invocation of call c is one of callGemini's pinned branch: a scalar
\* model without "/", or bestModel without a model
GeminiPinned(c) ==
  /\ calls[c].pc # "idle" /\ ~calls[c].callerLocalOnly
  /\ calls[c].provider \in {NoProvider, "gemini"}
  /\ \/ calls[c].modelKind = "scalar" /\ ~IncludesSlash(ListOf(c)[1])
     \/ calls[c].modelKind = "none" /\ calls[c].bestModel
\* the seconds of the retry hint of a rate-limited invocation, 0 without a hint
HintSeconds(e) == IF e.retryDelay = NoRetryInfo THEN 0 ELSE e.retryDelay
Max(a, b) == IF a > b THEN a ELSE b

\* C17 as stated: before retrying a rate-limited pinned candidate the call
\* sleeps at least max(retryAfterSeconds, 30) seconds plus the jitter of 0.25 s,
\* never less than 30 seconds, also when the hint is smaller than 30.
C17_PinnedRetryWaitsAtLeast30s ==
  \A c \in Calls :
    GeminiPinned(c)
      => \A i \in 2..Len(Log(c)) :
           RateLimited(Log(c)[i - 1])
             => Log(c)[i].wait >= Max(HintSeconds(Log(c)[i - 1]), 30) * 1000 + 250

\* C17 amended: before retrying a rate-limited pinned candidate the call sleeps
\* the hinted seconds plus 1.25 s when the backend gave a hint, and 30 seconds
\* plus 1.25 s when it gave none.
C17_PinnedRetryWaitsHintOrDefault ==
  \A c \in Calls :
    GeminiPinned(c)
      => /\ \A i \in 2..Len(Log(c)) :
              RateLimited(Log(c)[i - 1])
                => /\ Log(c)[i].model = Log(c)[i - 1].model
                   /\ Log(c)[i].wait =
                        (IF Log(c)[i - 1].retryDelay = NoRetryInfo THEN 30
                         ELSE Log(c)[i - 1].retryDelay) * 1000 + 1250
         /\ (Log(c) # <<>> /\ RateLimited(Log(c)[Len(Log(c))])) => ~Done(c)

\* a pinned Gemini model was retried 6.25 s after a rate limit with a hint of
\* 5 s, and 31.25 s after one without a hint
C17_Witness ==
  \E c \in Calls :
    /\ GeminiPinned(c) /\ Len(Log(c)) = 3
    /\ RateLimited(Log(c)[1]) /\ Log(c)[1].retryDelay = 5 /\ Log(c)[2].wait = 6250
    /\ RateLimited(Log(c)[2]) /\ Log(c)[2].retryDelay = NoRetryInfo
    /\ Log(c)[3].wait = 31250

Overloaded(e) == e.status \in OverloadStatuses
\* the number of consecutive overload answers of call c that end with its i-th
\* invocation
OverloadRun(c, i) ==
  Cardinality({j \in 1..i : \A m \in j..i : Overloaded(Log(c)[m])})

RateLimitWait(e) ==
  (IF e.retryDelay = NoRetryInfo THEN 30 ELSE e.retryDelay) * 1000 + 1250

\* C19: the Gemini adapter classifies a backend error by its status into
\* disjoint kinds.  429 is handed to callGemini and not retried by
\* callGeminiModel: what follows is the next entry at once or callGemini's own
\* sleep, never the overload backoff.  499 and 503 are retried on the same model
\* after a wait.  Every other error ends the attempt at once with null: no wait
\* and no retry follow, and a call without a model list ends with null.
C19_GeminiErrorKinds ==
  \A c \in Calls :
    \A i \in DOMAIN Log(c) :
      LET e == Log(c)[i]
          isLast == i = Len(Log(c))
      IN  e.adapter = "gemini"
            => /\ RateLimited(e)
                    => /\ ~isLast => Log(c)[i + 1].wait \in {0, RateLimitWait(e)}
                       /\ (isLast /\ calls[c].pc = "sleep")
                            => calls[c].wait = RateLimitWait(e)
               /\ Overloaded(e)
                    => /\ ~isLast => /\ Log(c)[i + 1].model = e.model
                                     /\ Log(c)[i + 1].wait > 0
                       /\ isLast => calls[c].pc = "sleep"
               /\ Fatal(e)
                    => /\ ~isLast => IsList(c) /\ Log(c)[i + 1].wait = 0
                       /\ isLast => calls[c].pc # "sleep"
                       /\ ~IsList(c) => isLast /\ Done(c) /\ calls[c].result = Null

\* a pinned Gemini model answered 429, then 503, then 500: it was retried after
\* each of the first two and the call ended with null on the third
C19_Witness ==
  \E c \in Calls :
    /\ ~IsList(c) /\ Done(c) /\ Len(Log(c)) = 3
    /\ \A i \in 1..3 : Log(c)[i].adapter = "gemini"
    /\ RateLimited(Log(c)[1]) /\ Log(c)[2].wait = RateLimitWait(Log(c)[1])
    /\ Log(c)[2].status = 503 /\ Log(c)[3].wait = 10000
    /\ Fatal(Log(c)[3]) /\ calls[c].result = Null

\* C20: there is no request coalescing: two calls with the same fingerprint that
\* run concurrently both miss the cache and both invoke a backend; the cache
\* holds one entry per fingerprint, and it is the payload of the call that
\* wrote last: a call that ends with the value its backend gave leaves that
\* value under its fingerprint, whatever was stored there before, and no entry
\* changes except by the write of a call in flight with that fingerprint.
C20_LastWriteWins ==
  [][/\ \A c \in Calls :
          (/\ calls[c].pc = "inflight" /\ calls'[c].pc = "done"
           /\ calls'[c].hash = calls[c].hash /\ calls'[c].result # Null)
            => /\ calls[c].hash \in DOMAIN cache'
               /\ cache'[calls[c].hash] = calls'[c].result
     /\ \A h \in DOMAIN cache' :
          Writes(h) => \E c \in Calls : calls[c].pc = "inflight" /\ calls[c].hash = h]_vars

\* two calls with the same fingerprint have both invoked the backend and ended
\* with different payloads; the first call's payload was overwritten by the
\* second's
C20_Witness ==
  /\ Done(1) /\ Done(2) /\ calls[1].hash = calls[2].hash
  /\ Len(Log(1)) = 1 /\ Len(Log(2)) = 1
  /\ calls[1].result = "{result:3}" /\ calls[2].result = "0"
  /\ cache[calls[1].hash] = "0"

\* at every moment at most one invocation of call c is unanswered, and it is
\* the last one
OneInFlight(c) ==
  \A i \in DOMAIN Log(c) :
    ~WasAnswered(Log(c)[i]) => i = Len(Log(c)) /\ calls[c].pc = "inflight"

JText(tokens) == [k |-> "string", v |-> tokens, kids |-> <<>>]
JStr(s) == JText(<<s>>)
JNum(s) == [k |-> "number", v |-> <<s>>, kids |-> <<>>]
JBool(s) == [k |-> "boolean", v |-> <<s>>, kids |-> <<>>]
JNull == [k |-> "null", v |-> <<>>, kids |-> <<>>]
JUndefined == [k |-> "undefined", v |-> <<>>, kids |-> <<>>]
JFunction(name) == [k |-> "function", v |-> <<name>>, kids |-> <<>>]
JObject(entries) == [k |-> "object", v |-> <<>>, kids |-> entries]
JArray(items) == [k |-> "array", v |-> <<>>, kids |-> [i \in DOMAIN items |-> <<"", items[i]>>]]
\* an error thrown instead of a value
Thrown(message) == [k |-> "throw", v |-> <<message>>, kids |-> <<>>]
\* the truthiness of a value (Boolean(value))
IsTruthy(value) ==
  CASE value.k \in {"null", "undefined"} -> FALSE
    [] value.k = "string" -> value.v # <<>> /\ value.v # <<"">>
    [] value.k = "boolean" -> value.v = <<"true">>
    [] value.k = "number" -> value.v # <<"0">>
    [] OTHER -> TRUE

Keys(o) == [i \in DOMAIN o.kids |-> o.kids[i][1]]
Values(o) == [i \in DOMAIN o.kids |-> o.kids[i][2]]
\* key in o
HasKey(o, key) == \E i \in DOMAIN o.kids : o.kids[i][1] = key
\* o[key]
Get(o, key) ==
  IF HasKey(o, key)
  THEN o.kids[CHOOSE i \in DOMAIN o.kids : o.kids[i][1] = key][2]
  ELSE JUndefined
\* o[key] = val: an existing key keeps its place, a new key is appended
Set(o, key, val) ==
  IF HasKey(o, key)
  THEN [o EXCEPT !.kids = [i \in DOMAIN o.kids |->
                             IF o.kids[i][1] = key THEN <<key, val>> ELSE o.kids[i]]]
  ELSE [o EXCEPT !.kids = Append(o.kids, <<key, val>>)]
\* delete o[key]
Delete(o, key) == [o EXCEPT !.kids = SelectSeq(o.kids, LAMBDA e : e[1] # key)]

\* Object.assign(target, source)
RECURSIVE AssignEntries(_, _)
AssignEntries(target, entries) ==
  IF entries = <<>> THEN target
  ELSE AssignEntries(Set(target, entries[1][1], entries[1][2]), Tail(entries))
ObjectAssign(target, source) == AssignEntries(target, source.kids)

\* JSON.stringify(value), kept as the tree that the text spells out: an entry of
\* an object whose value is undefined or a function is left out, such an
\* element of an array is written null; the key order is the insertion order
RECURSIVE JSONStringify(_)
JSONStringify(value) ==
  IF value.k = "object"
  THEN LET kept == SelectSeq(value.kids, LAMBDA e : e[2].k \notin {"undefined", "function"})
       IN  [value EXCEPT !.kids = [i \in DOMAIN kept |->
                                     <<kept[i][1], JSONStringify(kept[i][2])>>]]
  ELSE IF value.k = "array"
  THEN [value EXCEPT !.kids = [i \in DOMAIN value.kids |->
                                 <<"", IF value.kids[i][2].k \in {"undefined", "function"}
                                       THEN JNull
                                       ELSE JSONStringify(value.kids[i][2])>>]]
  ELSE IF value.k = "function" THEN JUndefined
  ELSE value

\* ------------------------------------------------------------ the fingerprint
\* the positional arguments of the calls whose fingerprints are compared
Task0 == JStr("Suggest a recipe")
Inputs0 == JObject(<< <<"ingredients", JStr("rice")>> >>)
Outputs0 == JStr("{name: String}")

\* a variant of modelInput that leaves the whole model list in the request
modelInput_KeepList(configOrRole, task, inputs, outputs, outputFormat) ==
  LET role == IF configOrRole.k = "string" THEN configOrRole ELSE JNull
      base == JObject(<< <<"role", role>>, <<"task", task>>, <<"inputs", inputs>>,
                         <<"outputs", outputs>>, <<"outputFormat", outputFormat>> >>)
  IN  IF configOrRole.k = "object" THEN ObjectAssign(base, configOrRole) ELSE base

\* modelInput as aiTask builds it from its arguments, up to the hashQuery call
modelInput(configOrRole, task, inputs, outputs, outputFormat) ==
  LET role == IF configOrRole.k = "string" THEN configOrRole ELSE JNull
      base == JObject(<< <<"role", role>>, <<"task", task>>, <<"inputs", inputs>>,
                         <<"outputs", outputs>>, <<"outputFormat", outputFormat>> >>)
  IN  IF configOrRole.k = "object"
      THEN LET merged == ObjectAssign(base, configOrRole)
               model == Get(merged, "model")
           IN  IF model.k = "array"
               THEN Set(merged, "model",
                        IF model.kids = <<>> THEN JUndefined ELSE model.kids[1][2])
               ELSE merged
      ELSE base

\* hashQuery(modelInput) for a call aiTask(configOrRole, task, inputs, outputs):
\* the digest is taken as injective on the serialized request
Fingerprint(configOrRole) ==
  JSONStringify(modelInput(configOrRole, Task0, Inputs0, Outputs0, JStr("json_object")))

\* the fields a config object can carry, and the config objects of at most two
\* fields
ConfigFields ==
  {<<"model", m>> : m \in {JStr(ModelA), JArray(<<JStr(ModelA)>>),
                          JArray(<<JStr(ModelA), JStr(ModelB)>>),
                          JArray(<<JStr(ModelA), JStr(ModelC)>>),
                          JArray(<<JStr(ModelB), JStr(ModelA)>>)}}
    \cup {<<"provider", p>> : p \in {JStr("gemini"), JStr("openai"),
                                    JFunction("providerOne"), JFunction("providerTwo")}}
    \cup {<<"temperature", t>> : t \in {JNum("0.2"), JNum("0.7")}}
    \cup {<<"task", t>> : t \in {JStr("Suggest a recipe"), JStr("Name a dish")}}
Configs ==
  {JObject(<<>>)} \cup {JObject(<<f>>) : f \in ConfigFields}
    \cup {JObject(<<p[1], p[2]>>) :
            p \in {q \in ConfigFields \X ConfigFields : q[1][1] # q[2][1]}}

\* two requests are made
FingerprintInit ==
  /\ calls = [c \in Calls |-> Idle]
  /\ cache = <<>>
  /\ lastRateLimitedGeminiModelIndex = 0
  /\ fnInput \in {<<a, b>> : a, b \in Configs}
  /\ fnOutput = <<>>

\* aiTask computes the fingerprint of each
HashRequests ==
  /\ fnOutput = <<>>
  /\ fnOutput' = <<Fingerprint(fnInput[1]), Fingerprint(fnInput[2])>>
  /\ UNCHANGED <<calls, cache, lastRateLimitedGeminiModelIndex, fnInput>>

SpecFingerprint == FingerprintInit /\ [][HashRequests]_vars

\* the value a request gives to a recognized field: the model is the first of a
\* model list, a provider callback is no provider id, a task of the config
\* object replaces the positional one
FieldOf(cfg, key) ==
  LET given == Get(cfg, key)
  IN  CASE key = "model" ->
             IF given.k = "array"
             THEN IF given.kids = <<>> THEN JUndefined ELSE given.kids[1][2]
             ELSE given
        [] key = "provider" -> IF given.k = "function" THEN JUndefined ELSE given
        [] key = "task" -> IF HasKey(cfg, "task") THEN given ELSE Task0
        [] OTHER -> given
RecognizedFields == {"task", "model", "provider", "temperature"}
SameFieldValues(a, b) == \A key \in RecognizedFields : FieldOf(a, key) = FieldOf(b, key)
Hashed == fnOutput # <<>> /\ Len(fnInput) = 2 /\ Len(fnOutput) = 2

\* C22: two requests with equal field values get the same fingerprint, and two
\* requests that differ in a recognized field get different fingerprints
C22_FingerprintDeterminism ==
  Hashed =>
    (SameFieldValues(fnInput[1], fnInput[2]) <=> fnOutput[1] = fnOutput[2])

\* b is a with another provider callback
DifferOnlyInCallback(a, b) ==
  /\ Keys(a) = Keys(b)
  /\ \A i \in DOMAIN a.kids :
       \/ a.kids[i] = b.kids[i]
       \/ /\ a.kids[i][1] = "provider"
          /\ a.kids[i][2].k = "function" /\ b.kids[i][2].k = "function"
  /\ a # b
\* b is a with another remainder of the model list
DifferOnlyInRemainder(a, b) ==
  /\ Keys(a) = Keys(b)
  /\ \A i \in DOMAIN a.kids :
       \/ a.kids[i] = b.kids[i]
       \/ /\ a.kids[i][1] = "model"
          /\ a.kids[i][2].k = "array" /\ b.kids[i][2].k = "array"
          /\ a.kids[i][2].kids # <<>> /\ b.kids[i][2].kids # <<>>
          /\ a.kids[i][2].kids[1] = b.kids[i][2].kids[1]
  /\ a # b

\* C23: two requests that differ only in the provider callback, or only in the
\* models of the list after the first, get the same fingerprint
C23_CallbackAndQueueNotHashed ==
  Hashed =>
    (DifferOnlyInCallback(fnInput[1], fnInput[2]) \/ DifferOnlyInRemainder(fnInput[1], fnInput[2])
       => fnOutput[1] = fnOutput[2])
C23_Witness ==
  /\ Hashed
  /\ DifferOnlyInRemainder(fnInput[1], fnInput[2])
  /\ HasKey(fnInput[1], "temperature")
  /\ fnOutput[1] = fnOutput[2]

\* ------------------------------------------------------------ createJSONSchema
\* string.includes(token)
Includes(text, token) == \E i \in DOMAIN text : text[i] = token
\* string.split('|')
RECURSIVE SplitBar(_)
SplitBar(text) ==
  IF ~Includes(text, "|") THEN <<text>>
  ELSE LET i == CHOOSE j \in DOMAIN text :
                   text[j] = "|" /\ \A h \in 1..(j - 1) : text[h] # "|"
       IN  <<SubSeq(text, 1, i - 1)>> \o SplitBar(SubSeq(text, i + 1, Len(text)))
\* string.trim()
RECURSIVE Trim(_)
Trim(text) ==
  IF text = <<>> THEN text
  ELSE IF Head(text) = " " THEN Trim(Tail(text))
  ELSE IF text[Len(text)] = " " THEN Trim(SubSeq(text, 1, Len(text) - 1))
  ELSE text
\* string.toLowerCase()
LowerOf(token) ==
  CASE token = "String" -> "string"
    [] token = "Number" -> "number"
    [] token = "Boolean" -> "boolean"
    [] token = "Naming" -> "naming"
    [] token = "Paragraph" -> "paragraph"
    [] token = "Enum" -> "enum"
    [] token = "Date" -> "date"
    [] OTHER -> token
ToLowerCase(text) == [i \in DOMAIN text |-> LowerOf(text[i])]
\* type.includes(' optional') and type.replace(' optional', '')
IncludesOptional(text) ==
  \E i \in 1..(Len(text) - 1) : text[i] = " " /\ text[i + 1] = "optional"
ReplaceOptional(text) ==
  IF ~IncludesOptional(text) THEN text
  ELSE LET i == CHOOSE j \in 1..(Len(text) - 1) :
                   /\ text[j] = " " /\ text[j + 1] = "optional"
                   /\ \A h \in 1..(j - 1) : ~(text[h] = " " /\ text[h + 1] = "optional")
       IN  SubSeq(text, 1, i - 1) \o SubSeq(text, i + 2, Len(text))

\* the texts a second segment is made of
JsonArrayText == "[\"red\",\"green\"]"
JsonObjectText == "{\"red\":1}"
NotJsonText == "not-a-json-array"
\* JSON.parse(text)
JSONParseText(text) ==
  IF text = <<JsonArrayText>> THEN JArray(<<JStr("red"), JStr("green")>>)
  ELSE IF text = <<JsonObjectText>> THEN JObject(<< <<"red", JNum("1")>> >>)
  ELSE Thrown("SyntaxError")

\* Zod schemas: an object whose entry zod names the kind
Z(kind) == JObject(<< <<"zod", JStr(kind)>> >>)
ZString == Z("string")
ZNumber == Z("number")
ZBoolean == Z("boolean")
ZAny == Z("any")
ZMax(z, n) == Set(z, "max", JNum(n))
ZNativeEnum(values) == Set(Z("enum"), "values", values)
ZDescribe(z, description) == Set(z, "description", JText(description))
ZOptional(z) == Set(Z("optional"), "inner", z)
ZNullable(z) == Set(Z("nullable"), "inner", z)
ZArray(item) == Set(Z("array"), "element", item)
ZUnion(options) == Set(Z("union"), "options", JArray(options))
ZRecord(key, value) == Set(Set(Z("record"), "key", key), "value", value)
ZObject(shape) == Set(Z("object"), "shape", JObject(shape))
ZKind(z) == Get(z, "zod").v[1]
\* the first error thrown by the conversions of a sequence, if any
IsThrown(value) == value.k = "throw"
AnyThrown(values) == \E i \in DOMAIN values : IsThrown(values[i])
FirstThrown(values) ==
  values[CHOOSE i \in DOMAIN values :
           IsThrown(values[i]) /\ \A h \in 1..(i - 1) : ~IsThrown(values[h])]

\* a variant of parseStringDescription in which ' optional' does not make the
\* field optional
parseStringDescription_IgnoreOptional(descriptionString) ==
  IF Includes(descriptionString, "|")
  THEN LET split == SplitBar(descriptionString)
           parts == [i \in DOMAIN split |-> Trim(split[i])]
           lowered == IF parts[1] # <<>> THEN ToLowerCase(parts[1]) ELSE <<"string">>
           given == IF parts[2] # <<>> THEN parts[2] ELSE parts[1]
           isOptional == IncludesOptional(lowered)
           type == IF isOptional THEN Trim(ReplaceOptional(lowered)) ELSE lowered
           enumValues == JSONParseText(given)
           description == IF type = <<"enum">> THEN <<>> ELSE given
           zType == CASE type = <<"number">> -> ZNumber
                      [] type = <<"boolean">> -> ZBoolean
                      [] type = <<"naming">> -> ZMax(ZString, "80")
                      [] type = <<"paragraph">> -> ZString
                      [] type = <<"enum">> -> ZNativeEnum(enumValues)
                      [] OTHER -> ZString
           wrapped == zType
       IN  IF type = <<"enum">> /\ enumValues.k # "array"
           THEN Thrown("Malformed Enum")
           ELSE IF description # <<>> THEN ZDescribe(wrapped, description) ELSE wrapped
  ELSE IF descriptionString # <<>> /\ descriptionString # <<"">>
       THEN ZDescribe(ZString, descriptionString)
       ELSE ZString

\* a variant of parseStringDescription that takes an Enum whose second segment
\* is not a JSON array as an Enum without values
parseStringDescription_LenientEnum(descriptionString) ==
  IF Includes(descriptionString, "|")
  THEN LET split == SplitBar(descriptionString)
           parts == [i \in DOMAIN split |-> Trim(split[i])]
           lowered == IF parts[1] # <<>> THEN ToLowerCase(parts[1]) ELSE <<"string">>
           given == IF parts[2] # <<>> THEN parts[2] ELSE parts[1]
           isOptional == IncludesOptional(lowered)
           type == IF isOptional THEN Trim(ReplaceOptional(lowered)) ELSE lowered
           enumValues == JSONParseText(given)
           description == IF type = <<"enum">> THEN <<>> ELSE given
           zType == CASE type = <<"number">> -> ZNumber
                      [] type = <<"boolean">> -> ZBoolean
                      [] type = <<"naming">> -> ZMax(ZString, "80")
                      [] type = <<"paragraph">> -> ZString
                      [] type = <<"enum">> -> ZNativeEnum(enumValues)
                      [] OTHER -> ZString
           wrapped == IF isOptional THEN ZNullable(ZOptional(zType)) ELSE zType
       IN  IF type = <<"enum">> /\ enumValues.k # "array"
           THEN ZNativeEnum(JArray(<<>>))
           ELSE IF description # <<>> THEN ZDescribe(wrapped, description) ELSE wrapped
  ELSE IF descriptionString # <<>> /\ descriptionString # <<"">>
       THEN ZDescribe(ZString, descriptionString)
       ELSE ZString

parseStringDescription(descriptionString) ==
  IF Includes(descriptionString, "|")
  THEN LET split == SplitBar(descriptionString)
           parts == [i \in DOMAIN split |-> Trim(split[i])]
           lowered == IF parts[1] # <<>> THEN ToLowerCase(parts[1]) ELSE <<"string">>
           given == IF parts[2] # <<>> THEN parts[2] ELSE parts[1]
           isOptional == IncludesOptional(lowered)
           type == IF isOptional THEN Trim(ReplaceOptional(lowered)) ELSE lowered
           enumValues == JSONParseText(given)
           description == IF type = <<"enum">> THEN <<>> ELSE given
           zType == CASE type = <<"number">> -> ZNumber
                      [] type = <<"boolean">> -> ZBoolean
                      [] type = <<"naming">> -> ZMax(ZString, "80")
                      [] type = <<"paragraph">> -> ZString
                      [] type = <<"enum">> -> ZNativeEnum(enumValues)
                      [] OTHER -> ZString
           wrapped == IF isOptional THEN ZNullable(ZOptional(zType)) ELSE zType
       IN  IF type = <<"enum">> /\ enumValues.k # "array"
           THEN Thrown("Malformed Enum")
           ELSE IF description # <<>> THEN ZDescribe(wrapped, description) ELSE wrapped
  ELSE IF descriptionString # <<>> /\ descriptionString # <<"">>
       THEN ZDescribe(ZString, descriptionString)
       ELSE ZString

\* typeof value
TypeOf(value) == IF value.k \in {"null", "array"} THEN "object" ELSE value.k
\* the characters of a property name, as the tokens of a descriptor text
KeyDescribed == "String | Name of the attribute"
KeyMalformedEnum == "Enum | not-a-json-array"
TextOf(key) ==
  CASE key = KeyDescribed -> <<"String", " ", "|", " ", "Name of the attribute">>
    [] key = KeyMalformedEnum -> <<"Enum", " ", "|", " ", NotJsonText>>
    [] OTHER -> <<key>>

RECURSIVE convertToZod(_)

\* a variant of handleRecordConversion that takes the last entry as the sample
handleRecordConversion_LastEntry(input) ==
  LET recordKeys == SelectSeq(Keys(input), LAMBDA key : key # "__is_record")
  IN  IF recordKeys = <<>> THEN ZRecord(ZString, ZAny)
      ELSE LET sampleKey == recordKeys[Len(recordKeys)]
               keySchema == convertToZod(JText(TextOf(sampleKey)))
               valueSchema == convertToZod(Get(input, sampleKey))
           IN  IF IsThrown(keySchema) THEN keySchema
               ELSE IF IsThrown(valueSchema) THEN valueSchema
               ELSE ZRecord(keySchema, valueSchema)

handleRecordConversion(input) ==
  LET recordKeys == SelectSeq(Keys(input), LAMBDA key : key # "__is_record")
  IN  IF recordKeys = <<>> THEN ZRecord(ZString, ZAny)
      ELSE LET sampleKey == recordKeys[1]
               keySchema == convertToZod(JText(TextOf(sampleKey)))
               valueSchema == convertToZod(Get(input, sampleKey))
           IN  IF IsThrown(keySchema) THEN keySchema
               ELSE IF IsThrown(valueSchema) THEN valueSchema
               ELSE ZRecord(keySchema, valueSchema)

\* the schemas of value[0].map(convertToZod)
UnionOf(list) ==
  LET schemas == [i \in DOMAIN list.kids |-> convertToZod(list.kids[i][2])]
  IN  IF AnyThrown(schemas) THEN FirstThrown(schemas) ELSE ZArray(ZUnion(schemas))

\* the schema of one property of an object (the body of the for-in loop)
PropertySchema(value) ==
  IF value.k = "string" THEN parseStringDescription(value.v)
  ELSE IF value.k = "array"
  THEN LET first == IF value.kids = <<>> THEN JUndefined ELSE value.kids[1][2]
           second == IF Len(value.kids) >= 2 THEN value.kids[2][2] ELSE JUndefined
           element == convertToZod(first)
       IN  IF IsThrown(element) THEN element
           ELSE IF second = JStr("optional") THEN ZNullable(ZOptional(ZArray(element)))
           ELSE IF first.k = "array" /\ second = JStr("anyOf") THEN UnionOf(first)
           ELSE ZArray(element)
  ELSE IF value.k = "object" THEN convertToZod(value)
  ELSE ZDescribe(ZAny, <<"Type of ", TypeOf(value)>>)

convertToZod(input) ==
  IF input.k = "object"
  THEN IF IsTruthy(Get(input, "__is_record")) THEN handleRecordConversion(input)
       ELSE LET schemas == [i \in DOMAIN input.kids |-> PropertySchema(input.kids[i][2])]
            IN  IF AnyThrown(schemas) THEN FirstThrown(schemas)
                ELSE ZObject([i \in DOMAIN input.kids |-> <<input.kids[i][1], schemas[i]>>])
  ELSE IF input.k = "array"
  THEN IF Len(input.kids) >= 2 /\ input.kids[1][2].k = "array"
          /\ input.kids[2][2] = JStr("anyOf")
       THEN UnionOf(input.kids[1][2])
       ELSE IF input.kids # <<>>
       THEN LET element == convertToZod(input.kids[1][2])
            IN  IF IsThrown(element) THEN element ELSE ZArray(element)
       ELSE ZArray(ZAny)
  ELSE IF input.k = "string" THEN parseStringDescription(input.v)
  ELSE ZDescribe(ZAny, <<"Type of ", TypeOf(input)>>)

\* z.toJSONSchema(zodSchema, {io: "input"}) below the top level
RECURSIVE IsOptionalIn(_)
IsOptionalIn(z) ==
  \/ ZKind(z) = "optional"
  \/ ZKind(z) = "nullable" /\ IsOptionalIn(Get(z, "inner"))
RECURSIVE JSONSchemaOf(_)
JSONSchemaOf(z) ==
  LET kind == ZKind(z)
      body ==
        CASE kind = "string" ->
               << <<"type", JStr("string")>> >>
                 \o (IF HasKey(z, "max") THEN << <<"maxLength", Get(z, "max")>> >> ELSE <<>>)
          [] kind = "number" -> << <<"type", JStr("number")>> >>
          [] kind = "boolean" -> << <<"type", JStr("boolean")>> >>
          [] kind = "enum" -> << <<"type", JStr("string")>>, <<"enum", Get(z, "values")>> >>
          [] kind = "optional" -> JSONSchemaOf(Get(z, "inner")).kids
          [] kind = "nullable" ->
               << <<"anyOf", JArray(<<JSONSchemaOf(Get(z, "inner")),
                                       JObject(<< <<"type", JStr("null")>> >>)>>)>> >>
          [] kind = "array" ->
               << <<"type", JStr("array")>>, <<"items", JSONSchemaOf(Get(z, "element"))>> >>
          [] kind = "union" ->
               << <<"anyOf", JArray([i \in DOMAIN Get(z, "options").kids |->
                                       JSONSchemaOf(Get(z, "options").kids[i][2])])>> >>
          [] kind = "record" ->
               << <<"type", JStr("object")>>,
                  <<"propertyNames", JSONSchemaOf(Get(z, "key"))>>,
                  <<"additionalProperties", JSONSchemaOf(Get(z, "value"))>> >>
          [] kind = "object" ->
               LET shape == Get(z, "shape").kids
                   required == SelectSeq(shape, LAMBDA e : ~IsOptionalIn(e[2]))
               IN  << <<"type", JStr("object")>>,
                      <<"properties",
                        JObject([i \in DOMAIN shape |-> <<shape[i][1], JSONSchemaOf(shape[i][2])>>])>> >>
                     \o (IF required = <<>> THEN <<>>
                         ELSE << <<"required",
                                   JArray([i \in DOMAIN required |-> JStr(required[i][1])])>> >>)
          [] OTHER -> <<>>
  IN  IF HasKey(z, "description")
      THEN JObject(<< <<"description", Get(z, "description")>> >> \o body)
      ELSE JObject(body)
toJSONSchema(z) ==
  LET schema == JSONSchemaOf(z)
  IN  [schema EXCEPT !.kids =
         << <<"$schema", JStr("https://json-schema.org/draft/2020-12/schema")>> >> \o @]

createJSONSchema(input) ==
  LET zodSchema == convertToZod(input)
  IN  IF IsThrown(zodSchema) THEN zodSchema
      ELSE Delete(toJSONSchema(zodSchema), "$schema")

\* the descriptor texts '<Type>[ optional] | <second segment>'
TypeKeywords == {"String", "Number", "Boolean", "Naming", "Paragraph", "Enum", "Date"}
Describe(type, optional, second) ==
  <<type>> \o (IF optional THEN <<" ", "optional">> ELSE <<>>) \o <<" ", "|">>
    \o (IF second = "" THEN <<>> ELSE <<" ", second>>)
DescriptorTexts ==
  {Describe(t, o, s) : t \in TypeKeywords \ {"Enum"}, o \in BOOLEAN, s \in {"A description", ""}}
    \cup {Describe("Enum", o, s) : o \in BOOLEAN,
                                   s \in {JsonArrayText, JsonObjectText, NotJsonText, ""}}
    \cup {<<"Plain text">>}
FewDescriptorTexts ==
  {Describe("String", FALSE, "A description"), Describe("String", TRUE, "A description"),
   Describe("Number", FALSE, "A description"), Describe("Date", FALSE, "A description"),
   Describe("Enum", FALSE, JsonArrayText), Describe("Enum", TRUE, JsonArrayText),
   Describe("Enum", FALSE, NotJsonText), Describe("Enum", FALSE, JsonObjectText)}
Sentinel == <<"__is_record", JBool("true")>>
\* the descriptors handed to createJSONSchema
Descriptors ==
  {JObject(<< <<"a", JText(s)>> >>) : s \in DescriptorTexts}
    \cup {JObject(<< <<"a", JText(s)>>, <<"b", JText(t)>> >>) : s \in FewDescriptorTexts, t \in FewDescriptorTexts}
    \cup {JObject(<< <<"a", JObject(<< <<"b", JText(s)>> >>)>> >>) : s \in DescriptorTexts}
    \cup {JObject(<< <<"a", JArray(<<JText(s)>>)>> >>) : s \in DescriptorTexts}
    \cup {JObject(<< <<"a", JArray(<<JText(s), JStr("optional")>>)>>, <<"b", JText(t)>> >>) :
            s \in FewDescriptorTexts, t \in FewDescriptorTexts}
    \cup {JObject(<< <<"a", JArray(<<JText(s), JText(t)>>)>> >>) : s \in FewDescriptorTexts, t \in FewDescriptorTexts}
    \cup {JObject(<< <<"a", JArray(<<JArray(<<JText(s), JText(t)>>), JStr("anyOf")>>)>> >>) :
            s \in FewDescriptorTexts, t \in FewDescriptorTexts}
    \cup {JObject(<< <<"a", JObject(<< <<key, JText(s)>>, Sentinel >>)>> >>) :
            key \in {KeyDescribed, KeyMalformedEnum, "name"}, s \in FewDescriptorTexts}
    \cup {JObject(<< <<"a", JObject(<< Sentinel, <<KeyDescribed, JText(s)>>, <<"other", JText(t)>> >>)>> >>) :
            s \in FewDescriptorTexts, t \in FewDescriptorTexts}
    \cup {JArray(<<JText(s)>>) : s \in DescriptorTexts}
    \cup {JText(s) : s \in DescriptorTexts}

\* a descriptor is handed to createJSONSchema
SchemaInit ==
  /\ calls = [c \in Calls |-> Idle]
  /\ cache = <<>>
  /\ lastRateLimitedGeminiModelIndex = 0
  /\ fnInput \in {<<d>> : d \in Descriptors}
  /\ fnOutput = <<>>

\* createJSONSchema returns or throws
CompileSchema ==
  /\ fnOutput = <<>>
  /\ fnOutput' = <<createJSONSchema(fnInput[1])>>
  /\ UNCHANGED <<calls, cache, lastRateLimitedGeminiModelIndex, fnInput>>

SpecSchema == SchemaInit /\ [][CompileSchema]_vars

Compiled == fnOutput # <<>> /\ Len(fnInput) = 1

\* the type keywords that createJSONSchema knows
RecognizedKeywords == {"String", "Number", "Boolean", "Naming", "Paragraph", "Enum"}
\* the schema that a type keyword stands for
SchemaOfType(type) ==
  CASE type = "Number" -> JObject(<< <<"type", JStr("number")>> >>)
    [] type = "Boolean" -> JObject(<< <<"type", JStr("boolean")>> >>)
    [] type = "Naming" -> JObject(<< <<"type", JStr("string")>>, <<"maxLength", JNum("80")>> >>)
    [] type = "Enum" -> JObject(<< <<"type", JStr("string")>>,
                                   <<"enum", JArray(<<JStr("red"), JStr("green")>>)>> >>)
    [] OTHER -> JObject(<< <<"type", JStr("string")>> >>)
NullSchema == JObject(<< <<"type", JStr("null")>> >>)
\* the names listed in the required list of an object schema
RequiredOf(schema) ==
  {Get(schema, "required").kids[i][2].v[1] : i \in DOMAIN Get(schema, "required").kids}
\* the fields of the compiled descriptor that are described by a text, for an
\* object descriptor that compiled to a schema
TextFields ==
  IF Compiled /\ fnInput[1].k = "object" /\ ~IsThrown(fnOutput[1])
  THEN {i \in DOMAIN fnInput[1].kids : fnInput[1].kids[i][2].k = "string"}
  ELSE {}
FieldName(i) == fnInput[1].kids[i][1]
FieldText(i) == fnInput[1].kids[i][2].v
FieldSchema(i) == Get(Get(fnOutput[1], "properties"), FieldName(i))
SecondSegments == {"A description", JsonArrayText}

\* C24 (as stated): a field '<Type> optional | d' compiles to the union of the
\* type's schema and null with description d and is left out of required; every
\* non-optional sibling is listed in required
C24_OptionalFieldDescribed ==
  \A i \in TextFields : \A type \in RecognizedKeywords, d \in SecondSegments :
    /\ FieldText(i) = Describe(type, TRUE, d) =>
         /\ FieldSchema(i) = JObject(<< <<"description", JStr(d)>>,
                                        <<"anyOf", JArray(<<SchemaOfType(type), NullSchema>>)>> >>)
         /\ FieldName(i) \notin RequiredOf(fnOutput[1])
    /\ FieldText(i) = Describe(type, FALSE, d) => FieldName(i) \in RequiredOf(fnOutput[1])

\* C24 (amended): a field '<Type> optional | d' compiles to the union of the
\* type's schema and null and is left out of required, every non-optional
\* sibling being listed in required; the union carries description d, except
\* for an Enum, whose second segment is the list of values and whose union has
\* no description
C24_OptionalFieldDescribedUnlessEnum ==
  \A i \in TextFields : \A type \in RecognizedKeywords, d \in SecondSegments :
    /\ FieldText(i) = Describe(type, TRUE, d) =>
         /\ FieldSchema(i) =
              JObject((IF type = "Enum" THEN <<>> ELSE << <<"description", JStr(d)>> >>)
                        \o << <<"anyOf", JArray(<<SchemaOfType(type), NullSchema>>)>> >>)
         /\ FieldName(i) \notin RequiredOf(fnOutput[1])
    /\ FieldText(i) = Describe(type, FALSE, d) => FieldName(i) \in RequiredOf(fnOutput[1])
C24_Witness ==
  /\ Compiled
  /\ fnInput[1] = JObject(<< <<"a", JText(Describe("String", TRUE, "A description"))>>,
                             <<"b", JText(Describe("Number", FALSE, "A description"))>> >>)
  /\ RequiredOf(fnOutput[1]) = {"b"}
  /\ HasKey(Get(Get(fnOutput[1], "properties"), "a"), "anyOf")

\* the fields of the compiled descriptor that carry the __is_record sentinel
RecordFields ==
  IF Compiled /\ fnInput[1].k = "object" /\ ~IsThrown(fnOutput[1])
  THEN {i \in DOMAIN fnInput[1].kids :
          /\ fnInput[1].kids[i][2].k = "object"
          /\ Get(fnInput[1].kids[i][2], "__is_record") = JBool("true")}
  ELSE {}
\* the first entry of a record that is not the sentinel
SampleEntry(record) ==
  record.kids[CHOOSE i \in DOMAIN record.kids :
                /\ record.kids[i][1] # "__is_record"
                /\ \A h \in 1..(i - 1) : record.kids[h][1] = "__is_record"]
\* the schema described by a sample key: a string with the text after '|'
KeySchemaOf(key) ==
  JObject(<< <<"description", JStr(IF key = KeyDescribed THEN "Name of the attribute" ELSE key)>>,
             <<"type", JStr("string")>> >>)

\* C25: an object with the __is_record sentinel compiles to a map-typed schema
\* whose key schema comes from the first non-sentinel entry's key, whose value
\* schema comes from that entry's value, and which has no property named after
\* the sample key or the sentinel; the other entries have no effect
C25_RecordCompilesToMap ==
  \A i \in RecordFields :
    LET sample == SampleEntry(fnInput[1].kids[i][2])
    IN  /\ FieldSchema(i) =
             JObject(<< <<"type", JStr("object")>>,
                        <<"propertyNames", KeySchemaOf(sample[1])>>,
                        <<"additionalProperties", createJSONSchema(sample[2])>> >>)
        /\ ~IsThrown(createJSONSchema(sample[2]))
        /\ ~HasKey(FieldSchema(i), "properties")
C25_Witness ==
  /\ Compiled
  /\ fnInput[1] = JObject(<< <<"a", JObject(<< Sentinel,
                      <<KeyDescribed, JText(Describe("Number", FALSE, "A description"))>>,
                      <<"other", JText(Describe("Enum", FALSE, NotJsonText))>> >>)>> >>)
  /\ Get(Get(Get(fnOutput[1], "properties"), "a"), "additionalProperties")
       = JObject(<< <<"description", JStr("A description")>>, <<"type", JStr("number")>> >>)

\* an Enum text whose second segment is not a JSON array
MalformedEnumText(text) ==
  \E optional \in BOOLEAN, second \in {JsonObjectText, NotJsonText, ""} :
    text = Describe("Enum", optional, second)
\* [[...], 'anyOf']
IsAnyOfForm(value) ==
  /\ value.k = "array" /\ Len(value.kids) >= 2
  /\ value.kids[1][2].k = "array" /\ value.kids[2][2] = JStr("anyOf")
\* a malformed Enum text describes a field of the descriptor, at any depth: a
\* property of an object, the item descriptor of an array, an alternative of an
\* anyOf, the key or the value of the sample entry of a record
RECURSIVE HasMalformedEnum(_)
HasMalformedEnum(value) ==
  CASE value.k = "string" -> MalformedEnumText(value.v)
    [] value.k = "array" ->
         IF IsAnyOfForm(value)
         THEN \E i \in DOMAIN value.kids[1][2].kids :
                HasMalformedEnum(value.kids[1][2].kids[i][2])
         ELSE value.kids # <<>> /\ HasMalformedEnum(value.kids[1][2])
    [] value.k = "object" ->
         IF Get(value, "__is_record") = JBool("true")
         THEN \E i \in DOMAIN value.kids :
                /\ value.kids[i][1] # "__is_record"
                /\ value.kids[i] = SampleEntry(value)
                /\ \/ MalformedEnumText(TextOf(value.kids[i][1]))
                   \/ HasMalformedEnum(value.kids[i][2])
         ELSE \E i \in DOMAIN value.kids : HasMalformedEnum(value.kids[i][2])
    [] OTHER -> FALSE

\* C26: createJSONSchema throws, and returns no schema, for every Enum field
\* whose second segment is not a JSON array (not JSON, or JSON that is no array),
\* at any nesting depth of the descriptor
C26_MalformedEnumThrows ==
  Compiled /\ HasMalformedEnum(fnInput[1]) => IsThrown(fnOutput[1])
C26_Witness ==
  /\ Compiled
  /\ fnInput[1] = JObject(<< <<"a", JObject(<< <<"b", JText(Describe("Enum", FALSE, JsonObjectText))>> >>)>> >>)
  /\ HasMalformedEnum(fnInput[1])
  /\ IsThrown(fnOutput[1])

\* the fields described by '<Type> | d' with a type keyword that is not recognized
UnknownKeywordText(text) ==
  \E type \in TypeKeywords \ RecognizedKeywords, optional \in BOOLEAN,
     second \in {"A description", ""} :
    text = Describe(type, optional, second)

\* C27: createJSONSchema throws for a field whose type keyword is none of
\* String, Number, Boolean, Naming, Paragraph, Enum
C27_UnknownKeywordThrows ==
  Compiled /\ fnInput[1].k = "object"
    /\ (\E i \in DOMAIN fnInput[1].kids :
          /\ fnInput[1].kids[i][2].k = "string"
          /\ UnknownKeywordText(fnInput[1].kids[i][2].v))
    => IsThrown(fnOutput[1])

\* ------------------------------------------------------------ dataCompressor
\* String(key): the property name that a key-attribute value becomes
PropertyName(value) == IF value.v = <<>> THEN value.k ELSE value.v[1]

\* the loop 'collapsed[key] = rest' over the items of the array
RECURSIVE CollapseItems(_, _)
CollapseItems(collapsed, items) ==
  IF items = <<>> THEN collapsed
  ELSE CollapseItems(Set(collapsed, PropertyName(Get(items[1], "name")),
                         Delete(items[1], "name")),
                     Tail(items))

\* collapseArrayToObject(data, {}) with the default options keyAttr 'name',
\* collapseSingleAttr true, deep true
RECURSIVE collapseArrayToObject(_)
collapseArrayToObject(data) ==
  IF data.k # "array"
  THEN IF data.k = "object"
       THEN JObject([i \in DOMAIN data.kids |->
                       <<data.kids[i][1], collapseArrayToObject(data.kids[i][2])>>])
       ELSE data
  ELSE IF ~(\A i \in DOMAIN data.kids :
              data.kids[i][2].k = "object" /\ HasKey(data.kids[i][2], "name"))
  THEN data
  ELSE LET collapsed == CollapseItems(JObject(<<>>), Values(data))
           allSingle == \A i \in DOMAIN collapsed.kids :
                          /\ collapsed.kids[i][2].k \in {"object", "array"}
                          /\ Len(collapsed.kids[i][2].kids) = 1
           single == IF allSingle
                     THEN [i \in DOMAIN collapsed.kids |->
                             <<collapsed.kids[i][1], collapsed.kids[i][2].kids[1][2]>>]
                     ELSE collapsed.kids
       IN  JObject([i \in DOMAIN single |->
                      <<single[i][1], collapseArrayToObject(single[i][2])>>])

\* dataCompressor(data) with the default options: the collapse, nothing omitted
dataCompressor(data) == collapseArrayToObject(data)

\* the items {name, data[, sata]} and the arrays of at most MaxItems of them
MaxItems == 2
Items ==
  {JObject(<< <<"name", JStr(n)>>, <<"data", JNum(d)>> >>) : n \in {"a", "b"}, d \in {"1", "2"}}
    \cup {JObject(<< <<"name", JStr(n)>>, <<"data", JNum(d)>>, <<"sata", JNum("3")>> >>) :
            n \in {"a", "b"}, d \in {"1", "2"}}
ItemArrays ==
  {JArray(items) : items \in UNION {[1..n -> Items] : n \in 0..MaxItems}}

\* two arrays are handed to dataCompressor
CompressorInit ==
  /\ calls = [c \in Calls |-> Idle]
  /\ cache = <<>>
  /\ lastRateLimitedGeminiModelIndex = 0
  /\ fnInput \in {<<x, y>> : x, y \in ItemArrays}
  /\ fnOutput = <<>>

\* dataCompressor returns for each
Compress ==
  /\ fnOutput = <<>>
  /\ fnOutput' = <<dataCompressor(fnInput[1]), dataCompressor(fnInput[2])>>
  /\ UNCHANGED <<calls, cache, lastRateLimitedGeminiModelIndex, fnInput>>

SpecCompressor == CompressorInit /\ [][Compress]_vars

Compressed == fnOutput # <<>> /\ Len(fnInput) = 2 /\ Len(fnOutput) = 2

\* C28: the collapse is lossless: different inputs give different outputs, and
\* every element of a collapsed array has its own entry in the resulting object
C28_CollapseLossless ==
  Compressed =>
    /\ fnInput[1] # fnInput[2] => fnOutput[1] # fnOutput[2]
    /\ \A i \in 1..2 : Len(fnOutput[i].kids) = Len(fnInput[i].kids)

\* ------------------------------------------------------------ buildPrompt
\* the prompt is kept as the sequence of its lines; the serialized inputs are
\* one entry, the tree that JSON.stringify(inputs, null, 2) spells out
Line(s) == JStr(s)
\* the delimiter line (three backquotes)
Fence == Line("'''")
TaskHeader == Line("TASK:")
OutputHeader(isJSON) ==
  JText(<<"OUTPUT WITH FOLLOWING ", IF IsTruthy(isJSON) THEN "JSON" ELSE "", " FORMAT:">>)
InputHeader == Line("INPUT:")
IsBlank(line) == line.k = "string" /\ \A i \in DOMAIN line.v : line.v[i] \in {"", " ", "    "}
\* prompt.trim(), on lines
RECURSIVE TrimLines(_)
TrimLines(lines) ==
  IF lines = <<>> THEN lines
  ELSE IF IsBlank(Head(lines)) THEN TrimLines(Tail(lines))
  ELSE IF IsBlank(lines[Len(lines)]) THEN TrimLines(SubSeq(lines, 1, Len(lines) - 1))
  ELSE lines
\* inputs && (Array.isArray(inputs) ? inputs.length > 0 : Object.keys(inputs).length > 0)
HasInput(inputs) ==
  /\ IsTruthy(inputs)
  /\ IF inputs.k \in {"object", "array"} THEN inputs.kids # <<>> ELSE inputs.k = "string"

\* `${value}`: the text that a template literal writes for a value
\* an element that is an object is written [object Object]
ElementText(value) == IF value.k = "object" THEN <<"[object Object]">> ELSE value.v
RECURSIVE JoinTexts(_)
JoinTexts(values) ==
  IF values = <<>> THEN <<>>
  ELSE IF Len(values) = 1 THEN ElementText(values[1])
  ELSE ElementText(values[1]) \o <<",">> \o JoinTexts(Tail(values))
TemplateText(value) ==
  CASE value.k = "string" -> value
    [] value.k = "object" -> Line("[object Object]")
    [] value.k = "array" -> JText(JoinTexts(Values(value)))
    [] OTHER -> JText(<<value.k>> \o value.v)

buildPrompt(task, inputs, outputs, isJSON) ==
  LET hasTask == IsTruthy(task)
      hasInput == HasInput(inputs)
      hasOutputs == IsTruthy(outputs)
  IN  TrimLines(
        (IF hasTask THEN <<TaskHeader, Fence, TemplateText(task), Fence, Line("")>> ELSE <<>>)
          \o (IF hasOutputs
              THEN <<OutputHeader(isJSON), Fence, TemplateText(outputs), Fence>>
              ELSE <<>>)
          \o (IF hasInput
              THEN <<InputHeader, Fence, JSONStringify(inputs), Fence, Line("    "), Line("")>>
              ELSE <<>>))

\* the arguments of buildPrompt: the task is a text or absent, the inputs an
\* object or an array or absent, the output description a text (from
\* createOllamaMessages), a descriptor object or array (from callGeminiModel) or
\* null
PromptTasks == {JUndefined, JNull, JStr(""), JStr("Suggest a recipe")}
PromptInputs ==
  {JUndefined, JNull, JObject(<<>>), JArray(<<>>),
   JObject(<< <<"ingredients", JStr("rice")>> >>), JArray(<<JStr("rice")>>)}
PromptOutputs ==
  {JNull, JStr(""), JStr("JSON name: \"String\""), JStr("{\"name\": \"String\"}"), JStr("{}"),
   JObject(<< <<"name", JStr("String")>> >>), JArray(<<JStr("String")>>),
   JObject(<<>>), JArray(<<>>)}

PromptInit ==
  /\ calls = [c \in Calls |-> Idle]
  /\ cache = <<>>
  /\ lastRateLimitedGeminiModelIndex = 0
  /\ fnInput \in {<<task, inputs, outputs, isJSON>> :
                    task \in PromptTasks, inputs \in PromptInputs,
                    outputs \in PromptOutputs, isJSON \in {JBool("true"), JBool("false")}}
  /\ fnOutput = <<>>

BuildPrompt ==
  /\ fnOutput = <<>>
  /\ fnOutput' = <<buildPrompt(fnInput[1], fnInput[2], fnInput[3], fnInput[4])>>
  /\ UNCHANGED <<calls, cache, lastRateLimitedGeminiModelIndex, fnInput>>

SpecPrompt == PromptInit /\ [][BuildPrompt]_vars

Built == fnOutput # <<>> /\ Len(fnInput) = 4
\* the lines of the built prompt, and the places where a block starts
PromptLines == fnOutput[1]
PlacesOf(header) == {i \in DOMAIN PromptLines : PromptLines[i] = header}
BlockStarts ==
  PlacesOf(TaskHeader) \cup PlacesOf(OutputHeader(fnInput[4])) \cup PlacesOf(InputHeader)
\* a source is non-empty: a text with characters, an object or array with
\* entries
NonEmptySource(value) ==
  \/ value.k = "string" /\ value.v # <<>> /\ value.v # <<"">>
  \/ value.k \in {"object", "array"} /\ value.kids # <<>>

\* C29: buildPrompt emits at most three fenced blocks in the order task, output
\* description, inputs; a block is emitted exactly when its source is non-empty,
\* and no fence is empty
C29_BlocksInOrderIffNonEmpty ==
  Built =>
    /\ Cardinality(BlockStarts) <= 3
    /\ Cardinality(PlacesOf(TaskHeader)) = (IF NonEmptySource(fnInput[1]) THEN 1 ELSE 0)
    /\ Cardinality(PlacesOf(OutputHeader(fnInput[4]))) = (IF NonEmptySource(fnInput[3]) THEN 1 ELSE 0)
    /\ Cardinality(PlacesOf(InputHeader)) = (IF NonEmptySource(fnInput[2]) THEN 1 ELSE 0)
    /\ \A i \in PlacesOf(TaskHeader), j \in PlacesOf(OutputHeader(fnInput[4])) : i < j
    /\ \A i \in PlacesOf(OutputHeader(fnInput[4])), j \in PlacesOf(InputHeader) : i < j
    /\ \A i \in PlacesOf(TaskHeader), j \in PlacesOf(InputHeader) : i < j
    /\ \A i \in BlockStarts :
         /\ i + 3 <= Len(PromptLines)
         /\ PromptLines[i + 1] = Fence /\ PromptLines[i + 3] = Fence
         /\ PromptLines[i + 2] \notin {Line(""), JText(<<>>), JObject(<<>>), JArray(<<>>)}
    /\ Cardinality({i \in DOMAIN PromptLines : PromptLines[i] = Fence}) = 2 * Cardinality(BlockStarts)

\* ------------------------------------------------------------ createOllamaMessages
\* base64Image(image): the encoded content of the image
Base64Image(image) == JText(<<"base64:">> \o image.v)
\* ollamaImageMessageBuilder(text, images); the text is kept as its lines
ollamaImageMessageBuilder(lines, images) ==
  JObject(<< <<"role", JStr("user")>>, <<"content", JArray(lines)>>, <<"images", images>> >>)

\* the loop over inputs.messages
TurnOf(message) ==
  IF message.k = "string"
  THEN JObject(<< <<"role", JStr("user")>>, <<"content", message>> >>)
  ELSE message

\* createOllamaMessages({role, task, inputs, outputs: null, outputFormat:
\* 'json_object', USE_JSON_SCHEMA: false, imageMessageBuilder:
\* ollamaImageMessageBuilder}), as callOllama calls it
createOllamaMessages(role, task, inputs) ==
  LET given == Get(inputs, "images")
      hasImages == IsTruthy(given) /\ given.k = "array" /\ given.kids # <<>>
      images == IF hasImages
                THEN JArray([i \in DOMAIN given.kids |-> Base64Image(given.kids[i][2])])
                ELSE JArray(<<>>)
      rest == IF hasImages THEN Delete(inputs, "images") ELSE inputs
      prompt == buildPrompt(task, rest, JStr(""), JBool("true"))
      system == IF IsTruthy(role)
                THEN << JObject(<< <<"role", JStr("system")>>, <<"content", role>> >>) >>
                ELSE <<>>
      list == Get(rest, "messages")
      pushed == system \o [i \in DOMAIN list.kids |-> TurnOf(list.kids[i][2])]
      last == pushed[Len(pushed)]
      withImages == IF pushed = <<>> THEN pushed
                    ELSE [pushed EXCEPT ![Len(pushed)] = Set(last, "images", images)]
      result(messages, returnWholeMessage) ==
        JObject(<< <<"messages", JArray(SelectSeq(messages, IsTruthy))>>,
                   <<"returnWholeMessage", JBool(returnWholeMessage)>>,
                   <<"isSchemaType", JBool("false")>>,
                   <<"schema", JNull>> >>)
  IN  IF list.k = "array"
      THEN IF pushed # <<>> /\ last.k \in {"null", "undefined"}
           THEN Thrown("TypeError")
           ELSE result(withImages, "true")
      ELSE result(system \o <<ollamaImageMessageBuilder(prompt, images)>>, "false")

\* the arguments: a role or none, inputs with or without images and with or
\* without a raw message list of at most MaxMessages entries
MaxMessages == 2
MessageEntries ==
  {JStr("What can I cook?"),
   JObject(<< <<"role", JStr("assistant")>>, <<"content", JStr("Risotto")>> >>),
   JObject(<< <<"role", JStr("user")>>, <<"content", JStr("Look")>>,
              <<"images", JArray(<<JStr("earlier")>>)>> >>),
   JNull}
MessageLists == UNION {[1..n -> MessageEntries] : n \in 0..MaxMessages}
ImageLists == {<<>>, << <<"images", JArray(<<>>)>> >>, << <<"images", JArray(<<JStr("photo.jpg")>>)>> >>}
MessageInputs ==
  {JObject(<< <<"ingredients", JStr("rice")>> >> \o images) : images \in ImageLists}
    \cup {JObject(images \o << <<"messages", JArray(list)>> >>) :
            images \in ImageLists, list \in MessageLists}

MessagesInit ==
  /\ calls = [c \in Calls |-> Idle]
  /\ cache = <<>>
  /\ lastRateLimitedGeminiModelIndex = 0
  /\ fnInput \in {<<role, Task0, inputs>> :
                    role \in {JUndefined, JStr("You are a cook")}, inputs \in MessageInputs}
  /\ fnOutput = <<>>

CreateMessages ==
  /\ fnOutput = <<>>
  /\ fnOutput' = <<createOllamaMessages(fnInput[1], fnInput[2], fnInput[3])>>
  /\ UNCHANGED <<calls, cache, lastRateLimitedGeminiModelIndex, fnInput>>

SpecMessages == MessagesInit /\ [][CreateMessages]_vars

\* the conversation that the claim describes for a raw message list: the
\* optional system turn, then one turn per entry, a string as a plain user turn,
\* an object as it is
TurnsOfList(role, list) ==
  (IF role.k = "string"
   THEN << <<"", JObject(<< <<"role", JStr("system")>>, <<"content", role>> >>)>> >>
   ELSE <<>>)
    \o [i \in DOMAIN list.kids |->
          <<"", IF list.kids[i][2].k = "string"
                THEN JObject(<< <<"role", JStr("user")>>, <<"content", list.kids[i][2]>> >>)
                ELSE list.kids[i][2]>>]

\* C30: for a raw message list the conversation is the optional system turn and
\* one turn per entry in list order, strings as plain user turns, objects
\* unchanged, no prompt turn appended, and the whole message is asked for
C30_RawMessagesPassedThrough ==
  fnOutput # <<>> /\ Len(fnInput) = 3 /\ Get(fnInput[3], "messages").k = "array" =>
    /\ ~IsThrown(fnOutput[1])
    /\ Get(fnOutput[1], "messages").kids = TurnsOfList(fnInput[1], Get(fnInput[3], "messages"))
    /\ Get(fnOutput[1], "returnWholeMessage") = JBool("true")

\* ------------------------------------------------------------ frame of aiTask
\* the array that the caller passed as config.model: Object.assign copies the
\* reference into modelInput, remainingModels is that same array, and the
\* recursion of the catch block hands it on, so every shift() acts on it
CallerList(c) == calls[c].remainingModels

\* C35: after a call with a model list has returned, the list object of the
\* caller still holds the same model ids in the same order
C35_CallerListUnchanged ==
  \A c \in Calls : Done(c) /\ IsList(c) => CallerList(c) = ListOf(c)

\* the call returned a payload without invoking any adapter: a cache hit
ReturnedFromCache(c) == Done(c) /\ Log(c) = <<>> /\ Truthy(calls[c].result)
\* the invocation went to a backend of the locality that the call asked for
\* with its positional flag (a provider callback is not a backend)
SameLocality(c, e) ==
  \/ e.adapter = "callback"
  \/ (e.adapter = "ollama") <=> calls[c].callerLocalOnly

\* C37: a payload that a call returns from the cache was produced by a backend
\* of the locality of that call: by Ollama for a local-only call, by a
\* non-local backend for a call that is not local-only
C37_LocalOnlySeparatesCache ==
  \A c \in Calls, d \in Calls :
    ReturnedFromCache(c) /\ d # c =>
      \E i \in DOMAIN Log(d) :
        /\ GavePayload(Log(d)[i])
        /\ PayloadOf(Log(d)[i]) = calls[c].result
        /\ SameLocality(c, Log(d)[i])

\* C38: for provider 'openai' and a scalar model id without a slash, every
\* invocation of the OpenAI adapter names that model
C38_OpenAIUsesRequestedModel ==
  \A c \in Calls :
    IsScalar(c) /\ calls[c].provider = "openai" /\ ~IncludesSlash(calls[c].model) =>
      \A i \in DOMAIN Log(c) :
        Log(c)[i].adapter = "openai" => Log(c)[i].model = calls[c].model

\* ------------------------------------------------------------ reading the response
\* A response text is a sequence of tokens: the opening marker of a fenced
\* JSON block (three backquotes and the word json), the closing marker (three
\* backquotes), a line break, the text of a JSON object, the text of a JSON
\* number, and a word of prose.
FenceOpen == "'''json"
FenceClose == "'''"
Newline == "\n"
ObjectText == "{\"result\":3}"
NumberText == "0"
ProseText == "Hello"
ResponseTokens == {FenceOpen, FenceClose, Newline, ObjectText, NumberText, ProseText}
MaxTokens == 3

\* JSON.parse(text): white space around the value is skipped, anything else
\* besides the one value throws a SyntaxError
ParseBody(text) == SelectSeq(text, LAMBDA t : t # Newline)
CanParse(text) == Len(ParseBody(text)) = 1 /\ ParseBody(text)[1] \in {ObjectText, NumberText}
ParseJSON(text) ==
  IF ~CanParse(text) THEN Thrown("SyntaxError")
  ELSE IF ParseBody(text)[1] = ObjectText
  THEN JObject(<< <<"result", JNum("3")>> >>)
  ELSE JNum("0")

\* text.replace(/^'''json/, ''): only at the very start of the text
ReplaceLeadingFence(text) ==
  IF text # <<>> /\ Head(text) = FenceOpen THEN Tail(text) ELSE text
\* text.replace(/'''$/, ''): only at the very end of the text
ReplaceTrailingFence(text) ==
  IF text # <<>> /\ text[Len(text)] = FenceClose THEN SubSeq(text, 1, Len(text) - 1) ELSE text
\* a reader that parses the same text again
stripFence_Keep(text) == text
stripFence(text) == ReplaceTrailingFence(ReplaceLeadingFence(text))

\* what an adapter returns for a successful backend response, and how many
\* times it called JSON.parse on the way
Read(value, parses) == [value |-> value, parses |-> parses]
\* a throw inside the adapter's try block is caught and null is returned
OrNull(value) == IF value.k = "throw" THEN JNull ELSE value

\* _callOpenAI (also behind callOpenRouter): the format is not consulted
ReadOpenAI(outputFormat, text) ==
  IF CanParse(text) THEN Read(ParseJSON(text), 1)
  ELSE IF CanParse(stripFence(text)) THEN Read(ParseJSON(stripFence(text)), 2)
  ELSE Read(JUndefined, 2)

ReadGemini(outputFormat, text) ==
  IF outputFormat = "json_object" THEN Read(OrNull(ParseJSON(text)), 1)
  ELSE Read(JText(text), 0)

ReadOllama(outputFormat, text) ==
  IF outputFormat = "json_object" THEN Read(OrNull(ParseJSON(text)), 1)
  ELSE Read(JText(text), 0)

ReadResponse(adapter, outputFormat, text) ==
  CASE adapter \in {"openai", "openrouter"} -> ReadOpenAI(outputFormat, text)
    [] adapter = "gemini" -> ReadGemini(outputFormat, text)
    [] adapter = "ollama" -> ReadOllama(outputFormat, text)

RECURSIVE TextsUpTo(_)
TextsUpTo(n) ==
  IF n = 0 THEN {<<>>}
  ELSE TextsUpTo(n - 1) \cup {Append(t, x) : t \in TextsUpTo(n - 1), x \in ResponseTokens}
ResponseTexts == TextsUpTo(MaxTokens)
Adapters == {"gemini", "ollama", "openai", "openrouter"}
OutputFormats == {"json_object", "text"}

ResponseInit ==
  /\ calls = [c \in Calls |-> Idle]
  /\ cache = <<>>
  /\ lastRateLimitedGeminiModelIndex = 0
  /\ fnInput \in Adapters \X OutputFormats \X ResponseTexts
  /\ fnOutput = <<>>

\* the backend answers with the text, the adapter returns
ReadsResponse ==
  /\ fnOutput = <<>>
  /\ fnOutput' = <<ReadResponse(fnInput[1], fnInput[2], fnInput[3])>>
  /\ UNCHANGED <<calls, cache, lastRateLimitedGeminiModelIndex, fnInput>>

SpecResponse == ResponseInit /\ [][ReadsResponse]_vars

\* the response was read by the adapter
WasRead == fnOutput # <<>> /\ Len(fnInput) = 3 /\ fnInput[1] \in Adapters
IsOpenAICompatible == fnInput[1] \in {"openai", "openrouter"}
\* the text without a marker at its start and without a marker at its end
Unwrapped(text) ==
  LET a == IF text # <<>> /\ text[1] = FenceOpen THEN 2 ELSE 1
      b == IF Len(text) >= a /\ text[Len(text)] = FenceClose
           THEN Len(text) - 1 ELSE Len(text)
  IN  SubSeq(text, a, b)

\* C31: in the OpenAI-compatible adapter a text that is not valid JSON is
\* parsed a second time without its leading and trailing fence marker; when
\* that parse succeeds its value is returned, otherwise no value is returned,
\* and there are never more than two parses
C31_FencedJSONParsedAgain ==
  WasRead /\ IsOpenAICompatible =>
    /\ fnOutput[1].parses <= 2
    /\ CanParse(fnInput[3]) =>
         fnOutput[1] = Read(ParseJSON(fnInput[3]), 1)
    /\ ~CanParse(fnInput[3]) /\ CanParse(Unwrapped(fnInput[3])) =>
         fnOutput[1] = Read(ParseJSON(Unwrapped(fnInput[3])), 2)
    /\ ~CanParse(fnInput[3]) /\ ~CanParse(Unwrapped(fnInput[3])) =>
         fnOutput[1] = Read(JUndefined, 2)

\* a fenced JSON object was read by the OpenAI-compatible adapter
C31_Witness ==
  /\ WasRead /\ IsOpenAICompatible
  /\ fnInput[3] = <<FenceOpen, ObjectText, FenceClose>>
  /\ fnOutput[1] = Read(JObject(<< <<"result", JNum("3")>> >>), 2)

\* C33: with outputFormat "text" every adapter returns the response text as it
\* is, without parsing it; only "json_object" is parsed
C33_TextReturnedUnparsed ==
  WasRead =>
    /\ fnInput[2] = "text" => fnOutput[1] = Read(JText(fnInput[3]), 0)
    /\ fnInput[2] = "json_object" => fnOutput[1].parses >= 1

\* ------------------------------------------------------------ the request of an adapter
\* What an adapter hands to its backend for an outputs value: the schema
\* constraint (null: none) and the lines of the prompt; made is FALSE when the
\* adapter threw before the backend call (it then returns null).
Payload(constraint, prompt) == [made |-> TRUE, constraint |-> constraint, prompt |-> prompt]
NoPayload == [made |-> FALSE, constraint |-> JNull, prompt |-> <<>>]

\* outputs.type && (outputs.type === "array" || outputs.type === "object")
HasContainerType(outputs) == Get(outputs, "type") \in {JStr("array"), JStr("object")}

\* a text that spells out JSON.stringify(value, null, 2)
JSONTextOf(value) ==
  [k |-> "string", v |-> <<"json">>, kids |-> << <<"", JSONStringify(value)>> >>]
\* Object.entries(value)
Entries(value) ==
  IF value.k = "object" THEN value.kids
  ELSE IF value.k = "array"
  THEN [i \in DOMAIN value.kids |-> <<ToString(i - 1), value.kids[i][2]>>]
  ELSE IF value.k = "string"
  THEN [i \in DOMAIN value.v |-> <<ToString(i - 1), JStr(value.v[i])>>]
  ELSE <<>>
\* 'JSON ' + Object.entries(outputs).map(([key, output]) =>
\*   `${key}: ${JSON.stringify(output, null, 2)}`).join('\n')
JSONListOf(value) ==
  [k |-> "string", v |-> <<"JSON ">>,
   kids |-> [i \in DOMAIN Entries(value) |->
               <<Entries(value)[i][1], JSONStringify(Entries(value)[i][2])>>]]

\* the part of createOllamaMessages that reads outputs: the schema it detects
\* and the prompt it builds
MessagesPayload(task, inputs, outputs, outputFormat, USE_JSON_SCHEMA) ==
  IF USE_JSON_SCHEMA /\ outputs.k \in {"null", "undefined"} THEN NoPayload
  ELSE
    LET isSchemaType == USE_JSON_SCHEMA /\ HasContainerType(outputs)
        useSchema == USE_JSON_SCHEMA /\ outputFormat = "json_object"
        USE_JSON_AS_OUTPUT == outputFormat # "text"
        jsonOutputs == IF outputs.k # "null" THEN JSONTextOf(outputs) ELSE JStr("")
        jsonSchemaOutputs == IF outputs.k # "null" THEN createJSONSchema(outputs) ELSE JStr("")
        jsonOutputsAsList == IF outputs.k # "null" THEN JSONListOf(outputs) ELSE JStr("")
    IN  IF IsThrown(jsonSchemaOutputs) THEN NoPayload
        ELSE Payload(IF isSchemaType THEN outputs ELSE JNull,
                     buildPrompt(task, inputs,
                                 IF useSchema \/ ~USE_JSON_AS_OUTPUT
                                 THEN jsonOutputsAsList ELSE jsonOutputs,
                                 JBool(IF USE_JSON_AS_OUTPUT THEN "true" ELSE "false")))

\* callGeminiModel: responseSchema is outputs or null, the prompt takes outputs
\* as it is
GeminiPayload(task, inputs, outputs, outputFormat) ==
  IF outputs.k \in {"null", "undefined"} THEN NoPayload
  ELSE Payload(IF HasContainerType(outputs) THEN outputs ELSE JNull,
               buildPrompt(task, inputs, outputs,
                           JBool(IF outputFormat = "json_object" THEN "true" ELSE "false")))

\* _callOpenAI (also behind callOpenRouter) builds its messages with
\* USE_JSON_SCHEMA true and sends response_format json_schema when a schema was
\* detected; callOllama builds them with USE_JSON_SCHEMA false, so it detects
\* none, and its format is "json" or null
AdapterPayload(adapter, task, inputs, outputs, outputFormat) ==
  IF adapter = "gemini" THEN GeminiPayload(task, inputs, outputs, outputFormat)
  ELSE MessagesPayload(task, inputs, outputs, outputFormat, adapter # "ollama")

\* the outputs values: plain descriptors (an object, a nested object, an
\* array, a text), the schemas that createJSONSchema compiles from them, and
\* none
PlainDescriptors ==
  {JObject(<< <<"name", JText(Describe("String", FALSE, "A description"))>> >>),
   JObject(<< <<"name", JStr("String")>>,
              <<"steps", JArray(<<JText(Describe("String", FALSE, "A description"))>>)>> >>),
   JObject(<< <<"dish", JObject(<< <<"name", JStr("String")>> >>)>> >>),
   JArray(<<JText(Describe("Number", FALSE, "A description"))>>),
   JArray(<<JObject(<< <<"name", JStr("String")>> >>)>>),
   JText(Describe("String", FALSE, "A description")),
   JObject(<< <<"level", JText(Describe("Enum", FALSE, NotJsonText))>> >>)}
CompiledSchemas == {s \in {createJSONSchema(d) : d \in PlainDescriptors} : ~IsThrown(s)}
PayloadOutputs == PlainDescriptors \cup CompiledSchemas \cup {JNull}

PayloadInit ==
  /\ calls = [c \in Calls |-> Idle]
  /\ cache = <<>>
  /\ lastRateLimitedGeminiModelIndex = 0
  /\ fnInput \in {<<adapter, task, Inputs0, outputs, outputFormat>> :
                    adapter \in Adapters, task \in {Task0, JStr("")},
                    outputs \in PayloadOutputs, outputFormat \in OutputFormats}
  /\ fnOutput = <<>>

\* the adapter prepares the backend call
PreparesRequest ==
  /\ fnOutput = <<>>
  /\ fnOutput' = <<AdapterPayload(fnInput[1], fnInput[2], fnInput[3], fnInput[4], fnInput[5])>>
  /\ UNCHANGED <<calls, cache, lastRateLimitedGeminiModelIndex, fnInput>>

SpecPayload == PayloadInit /\ [][PreparesRequest]_vars

\* the adapter made a backend call for the outputs value
RequestMade == fnOutput # <<>> /\ Len(fnInput) = 5 /\ fnOutput[1].made
\* the adapter can enforce a schema
Enforces(adapter) == adapter \in {"gemini", "openai", "openrouter"}
\* the words of a value: the tokens of its texts and the names of its fields
RECURSIVE WordsOf(_)
WordsOf(value) ==
  (IF value.k = "string" THEN {value.v[i] : i \in DOMAIN value.v} ELSE {})
    \cup UNION {({value.kids[i][1]} \ {""}) \cup WordsOf(value.kids[i][2]) :
                  i \in DOMAIN value.kids}
\* the prompt spells out the output description
Embeds(prompt, outputs) ==
  WordsOf(outputs) \subseteq UNION {WordsOf(prompt[i]) : i \in DOMAIN prompt}

\* C32: a schema constraint is sent exactly for a compiled schema with root
\* type object or array through an adapter that can enforce it; in every other
\* case the prompt spells out the output description
C32_SchemaSentOrDescriptionEmbedded ==
  RequestMade =>
    /\ fnOutput[1].constraint # JNull <=>
         /\ fnInput[4] \in CompiledSchemas
         /\ HasContainerType(fnInput[4])
         /\ Enforces(fnInput[1])
    /\ fnOutput[1].constraint # JNull => fnOutput[1].constraint = fnInput[4]
    /\ fnOutput[1].constraint = JNull => Embeds(fnOutput[1].prompt, fnInput[4])

\* ------------------------------------------------------------ images across the candidates
\* One aiTask call with a model list and inputs that may carry images. The
\* caller's inputs object is shared by every attempt: the recursion of the catch
\* block spreads modelInput, which copies the reference. The cache is empty and
\* every attempt has its own fingerprint, so no attempt is answered from it.
MaxAttempts == 3

\* the head of createOllamaMessages: the images are encoded, taken out of
\* inputs and deleted from it
extractImages(inputs) ==
  LET given == Get(inputs, "images")
      hasImages == IsTruthy(given) /\ given.k = "array" /\ given.kids # <<>>
  IN  IF hasImages
      THEN [images |-> JArray([i \in DOMAIN given.kids |-> Base64Image(given.kids[i][2])]),
            inputs |-> Delete(inputs, "images")]
      ELSE [images |-> JArray(<<>>), inputs |-> inputs]

\* the adapter that aiTask picks for the candidate
AdapterOf(model, provider, localOnly) ==
  IF localOnly THEN "ollama"
  ELSE IF model # Undefined /\ IncludesSlash(model) THEN "openrouter"
  ELSE IF provider = NoProvider THEN "gemini"
  ELSE "openai"

ImageInputs ==
  {Inputs0,
   Set(Inputs0, "images", JArray(<<>>)),
   Set(Inputs0, "images", JArray(<<JStr("photo.jpg")>>)),
   Set(Inputs0, "images", JArray(<<JStr("photo.jpg"), JStr("label.png")>>))}
CandidateLists ==
  {<<m>> : m \in {ModelA, ModelB, ModelC}}
    \cup {<<m, n>> : m \in {ModelA, ModelB, ModelC}, n \in {ModelA, ModelB, ModelC}}

ImagesInit ==
  /\ calls = [c \in Calls |-> Idle]
  /\ cache = <<>>
  /\ lastRateLimitedGeminiModelIndex = 0
  /\ fnInput \in {[list |-> l, provider |-> p, localOnly |-> b, inputs |-> i,
                   original |-> i, pc |-> "call"] :
                    l \in CandidateLists, p \in {NoProvider, "openai"},
                    b \in BOOLEAN, i \in ImageInputs}
  /\ fnOutput = <<>>

\* aiTask takes the next candidate off the list and invokes its adapter; the
\* backend answers or not, the cache write throws or not
Attempt(isNull, saveThrows) ==
  /\ fnInput.pc = "call"
  /\ Len(fnOutput) < MaxAttempts
  /\ LET model == IF fnInput.list = <<>> THEN Undefined ELSE Head(fnInput.list)
         adapter == AdapterOf(model, fnInput.provider, fnInput.localOnly)
         taken == IF adapter = "gemini"
                  THEN [images |-> JArray(<<>>), inputs |-> fnInput.inputs]
                  ELSE extractImages(fnInput.inputs)
         failed == (~fnInput.localOnly /\ isNull) \/ saveThrows
     IN  /\ fnOutput' = Append(fnOutput, [model |-> model, adapter |-> adapter,
                                          given |-> Get(fnInput.inputs, "images"),
                                          images |-> taken.images])
         /\ fnInput' = [fnInput EXCEPT
                          !.list = IF fnInput.list = <<>> THEN <<>> ELSE Tail(fnInput.list),
                          !.inputs = taken.inputs,
                          !.localOnly = IF failed THEN FALSE ELSE @,
                          !.pc = IF failed THEN "call" ELSE "done"]
  /\ UNCHANGED <<calls, cache, lastRateLimitedGeminiModelIndex>>

ImagesNext == \E isNull \in BOOLEAN, saveThrows \in BOOLEAN : Attempt(isNull, saveThrows)
SpecImages == ImagesInit /\ [][ImagesNext]_vars

\* the encoded image list of the request as the caller gave it
EncodedImages(inputs) ==
  IF Get(inputs, "images").k = "array"
  THEN JArray([i \in DOMAIN Get(inputs, "images").kids |->
                 Base64Image(Get(inputs, "images").kids[i][2])])
  ELSE JArray(<<>>)
ThroughMessages(e) == e.adapter \in {"openai", "openrouter", "ollama"}

\* C36: every attempt of a candidate of the model list finds the image list of
\* the request in inputs, and every such attempt through the OpenAI-compatible
\* or Ollama adapter sends those images
C36_ImagesReachEveryCandidate ==
  \A i \in DOMAIN fnOutput :
    fnOutput[i].model # Undefined =>
    /\ fnOutput[i].given = Get(fnInput.original, "images")
    /\ ThroughMessages(fnOutput[i]) => fnOutput[i].images = EncodedImages(fnInput.original)

\* ------------------------------------------------------------ overload retries of callGeminiModel
\* One callGeminiModel call and its recursive retries. The task text is kept
\* as a sequence of tokens; a request records what getGenerativeModel and
\* generateContent were given.
GemmaModel == "gemma-3-27b-it"
StartsWithGemma(model) == model = GemmaModel
RolePrefix == "ROLE:"
BlankLine == "\n\n"
MaxRetries == 3

\* the request that callGeminiModel sends, and the arguments it would hand to
\* its own retry: the task of a gemma model has been rewritten by then
GeminiRequest(args) ==
  LET model == IF args.model = Null THEN GeminiBestModel ELSE args.model
      supportsSystemInstruction == ~StartsWithGemma(model)
      task == IF supportsSystemInstruction THEN args.task
              ELSE <<RolePrefix>> \o args.role \o <<BlankLine>> \o args.task
  IN  [request |-> [model |-> model,
                    systemInstruction |-> IF supportsSystemInstruction
                                          THEN args.role ELSE <<Undefined>>,
                    task |-> task],
       args |-> [args EXCEPT !.model = model, !.task = task]]

RetryRoles == {<<"You are a cook">>, <<"You are a critic">>}
RetryTasks == {<<"Suggest a recipe">>, <<"Rate", " ", "this">>}
RetryModels == {GemmaModel, ModelA, Null}

RetryInit ==
  /\ calls = [c \in Calls |-> Idle]
  /\ cache = <<>>
  /\ lastRateLimitedGeminiModelIndex = 0
  /\ fnInput \in {[role |-> r, task |-> t, model |-> m, OverloadErrorRetry |-> 0,
                   wait |-> 0, pc |-> "call"] :
                    r \in RetryRoles, t \in RetryTasks, m \in RetryModels}
  /\ fnOutput = <<>>

\* callGeminiModel is entered (by the caller, or by its own retry after the
\* wait) and sends its request
SendsRequest ==
  /\ fnInput.pc = "call"
  /\ fnOutput' = Append(fnOutput, GeminiRequest(fnInput).request)
  /\ fnInput' = [GeminiRequest(fnInput).args EXCEPT !.pc = "inflight"]
  /\ UNCHANGED <<calls, cache, lastRateLimitedGeminiModelIndex>>

\* the backend answers: a response, a rate limit (rethrown), an overload
\* (wait, then the call again with the arguments at hand), anything else (null)
BackendAnswers(status) ==
  /\ fnInput.pc = "inflight"
  /\ IF status \in OverloadStatuses
     THEN /\ fnInput.OverloadErrorRetry < MaxRetries
          /\ fnInput' = [fnInput EXCEPT !.OverloadErrorRetry = @ + 1,
                                        !.wait = (fnInput.OverloadErrorRetry + 1) * 10000,
                                        !.pc = "call"]
     ELSE fnInput' = [fnInput EXCEPT !.pc = CASE status = 200 -> "returned"
                                              [] status = 429 -> "thrown"
                                              [] OTHER -> "null"]
  /\ UNCHANGED <<calls, cache, lastRateLimitedGeminiModelIndex, fnOutput>>

RetryNext ==
  \/ SendsRequest
  \/ \E status \in {200, 429} \cup OverloadStatuses \cup OtherStatuses : BackendAnswers(status)

SpecRetry == RetryInit /\ [][RetryNext]_vars

\* how often the token occurs in the text
Occurrences(text, token) == Cardinality({i \in DOMAIN text : text[i] = token})

\* C39: every attempt of the candidate sends the role and the task text of the
\* first attempt, and the task text of a gemma model holds the ROLE: prefix
\* exactly once
C39_RetriesSendSameText ==
  \A i \in DOMAIN fnOutput :
    /\ fnOutput[i].task = fnOutput[1].task
    /\ fnOutput[i].systemInstruction = fnOutput[1].systemInstruction
    /\ StartsWithGemma(fnOutput[i].model) => Occurrences(fnOutput[i].task, RolePrefix) = 1

\* ------------------------------------------------------------ dataCompressor with options
\* An object or array that the caller owns carries its path from the root of
\* the input in v; a copy that the code makes has an empty v. A reference that
\* is handed on keeps the path, so a deletion on an object with a path is a
\* deletion on the caller's object.
RECURSIVE Owned(_, _)
Owned(value, path) ==
  IF value.k \in {"object", "array"}
  THEN [value EXCEPT
          !.v = <<"@">> \o path,
          !.kids = [i \in DOMAIN value.kids |->
                      <<value.kids[i][1],
                        Owned(value.kids[i][2],
                              path \o <<IF value.kids[i][1] = "" THEN ToString(i)
                                        ELSE value.kids[i][1]>>)>>]]
  ELSE value
IsOwned(value) == value.k \in {"object", "array"} /\ value.v # <<>>
\* { ...value }
ShallowCopy(value) == [value EXCEPT !.v = <<>>]

\* collapseArrayToObject(data, {deep: false}): nothing below the top level is
\* visited, and what is not a collapsible array is returned as it is
collapseShallow(data) ==
  IF data.k # "array" THEN data
  ELSE IF ~(\A i \in DOMAIN data.kids :
              data.kids[i][2].k = "object" /\ HasKey(data.kids[i][2], "name"))
  THEN data
  ELSE LET collapsed == CollapseItems(JObject(<<>>), Values(data))
           allSingle == \A i \in DOMAIN collapsed.kids :
                          /\ collapsed.kids[i][2].k \in {"object", "array"}
                          /\ Len(collapsed.kids[i][2].kids) = 1
       IN  JObject([i \in DOMAIN collapsed.kids |->
                      <<collapsed.kids[i][1],
                        IF allSingle THEN collapsed.kids[i][2].kids[1][2]
                        ELSE ShallowCopy(collapsed.kids[i][2])>>])

\* an omit pattern: the parts of pattern.split('.') and the predicate; a
\* pattern written as a plain string has the predicate () => true
Pattern(parts, test) == [parts |-> parts, test |-> test]
Always == "() => true"
IsTwo == "(value) => value === 2"
TestFunc(test, value) == test = Always \/ (test = IsTwo /\ value = JNum("2"))
\* omitAttributes(newData[key], deepKey): the pattern that the recursion of the
\* wildcard branch receives, a plain string without the predicate
Deeper(pattern) == Pattern(Tail(pattern.parts), Always)

\* what omitAttributes did: the value it returns and the attributes it deleted
\* from objects of the caller, as <<path of the object, key>>
Omitted(value, deleted) == [value |-> value, deleted |-> deleted]

\* the nested path branch: the walk from newData along the parts, and the
\* delete on the object it arrives at
RECURSIVE NestedOmit(_, _, _)
NestedOmit(current, parts, test) ==
  IF Len(parts) = 1
  THEN IF TestFunc(test, Get(current, parts[1]))
       THEN Omitted(Delete(current, parts[1]),
                    IF IsOwned(current) /\ HasKey(current, parts[1])
                    THEN {<<current.v, parts[1]>>} ELSE {})
       ELSE Omitted(current, {})
  ELSE LET next == Get(current, parts[1])
       IN  IF next.k \in {"object", "array"}
           THEN LET below == NestedOmit(next, Tail(parts), test)
                IN  Omitted(Set(current, parts[1], below.value), below.deleted)
           ELSE Omitted(current, {})

RECURSIVE omitAttributes(_, _)
RECURSIVE OmitPattern(_, _)
RECURSIVE OmitPatterns(_, _)
\* the body of the loop over omitPatterns for one pattern
OmitPattern(newData, pattern) ==
  IF pattern.parts = <<>> THEN Omitted(newData, {})
  ELSE IF pattern.parts[1] = "*"
  THEN LET deepKey == Tail(pattern.parts)
           below == [i \in DOMAIN newData.kids |->
                       IF newData.kids[i][2].k \in {"object", "array"}
                       THEN omitAttributes(newData.kids[i][2], <<Deeper(pattern)>>)
                       ELSE Omitted(newData.kids[i][2], {})]
           visited == [newData EXCEPT !.kids = [i \in DOMAIN newData.kids |->
                                                  <<newData.kids[i][1], below[i].value>>]]
           kept == SelectSeq(visited.kids,
                             LAMBDA e : ~(/\ e[2].k \notin {"object", "array"}
                                          /\ deepKey = <<e[1]>>
                                          /\ TestFunc(pattern.test, e[2])))
       IN  Omitted([visited EXCEPT !.kids = kept],
                   UNION {below[i].deleted : i \in DOMAIN below})
  ELSE IF Len(pattern.parts) = 1
  THEN IF TestFunc(pattern.test, Get(newData, pattern.parts[1]))
       THEN Omitted(Delete(newData, pattern.parts[1]), {})
       ELSE Omitted(newData, {})
  ELSE NestedOmit(newData, pattern.parts, pattern.test)

OmitPatterns(done, patterns) ==
  IF patterns = <<>> THEN done
  ELSE LET step == OmitPattern(done.value, Head(patterns))
       IN  OmitPatterns(Omitted(step.value, done.deleted \cup step.deleted), Tail(patterns))

omitAttributes(data, omitConfig) ==
  IF data.k \notin {"object", "array"} THEN Omitted(data, {})
  ELSE IF data.k = "array"
  THEN LET items == [i \in DOMAIN data.kids |-> omitAttributes(data.kids[i][2], omitConfig)]
       IN  Omitted(JArray([i \in DOMAIN items |-> items[i].value]),
                   UNION {items[i].deleted : i \in DOMAIN items})
  ELSE OmitPatterns(Omitted(ShallowCopy(data), {}), omitConfig)

\* dataCompressor(data, {methods, collapseOptions: {deep}, omit})
dataCompressorWith(data, options) ==
  LET result == IF ~options.collapse THEN data
                ELSE IF options.deep THEN collapseArrayToObject(data)
                ELSE collapseShallow(data)
  IN  IF options.omit = <<>> THEN Omitted(result, {})
      ELSE omitAttributes(result, options.omit)

\* the caller's value after the call: the attributes deleted from its objects
\* are gone
RECURSIVE After(_, _)
After(value, deleted) ==
  IF value.k \in {"object", "array"}
  THEN LET kept == SelectSeq(value.kids, LAMBDA e : <<value.v, e[1]>> \notin deleted)
       IN  [value EXCEPT !.kids = [i \in DOMAIN kept |->
                                     <<kept[i][1], After(kept[i][2], deleted)>>]]
  ELSE value

\* the data of the tests of omit, and a few more of the same kind
OmitData ==
  {JObject(<< <<"attributes", JObject(<< <<"type", JNum("1")>>, <<"value", JNum("2")>> >>)>>,
              <<"meta", JObject(<< <<"type", JNum("2")>> >>)>> >>),
   JArray(<< JObject(<< <<"data", JStr("a")>>, <<"type", JNum("1")>> >>),
             JObject(<< <<"data", JStr("b")>>, <<"type", JNum("2")>> >>) >>),
   JArray(<< JObject(<< <<"attributes", JObject(<< <<"type", JNum("2")>>, <<"value", JNum("1")>> >>)>> >>) >>),
   JArray(<< JObject(<< <<"name", JStr("a")>>, <<"data", JNum("1")>>,
                        <<"attributes", JObject(<< <<"type", JNum("1")>> >>)>> >>),
             JObject(<< <<"name", JStr("b")>>, <<"data", JNum("2")>>,
                        <<"attributes", JObject(<< <<"type", JNum("2")>> >>)>> >>) >>),
   JObject(<< <<"type", JNum("2")>>, <<"data", JStr("a")>> >>),
   JObject(<< <<"type", JNum("1")>>,
              <<"list", JArray(<< JObject(<< <<"type", JNum("1")>> >>) >>)>> >>)}
OmitConfigs ==
  {<<>>,
   <<Pattern(<<"type">>, Always)>>,
   <<Pattern(<<"*", "type">>, Always)>>,
   <<Pattern(<<"attributes", "type">>, Always)>>,
   <<Pattern(<<"type">>, Always), Pattern(<<"data">>, Always)>>,
   <<Pattern(<<"type">>, IsTwo)>>,
   <<Pattern(<<"*", "type">>, IsTwo)>>,
   <<Pattern(<<"attributes", "type">>, IsTwo)>>}
CompressorOptions ==
  {[collapse |-> c, deep |-> d, omit |-> o] : c \in BOOLEAN, d \in BOOLEAN, o \in OmitConfigs}

OmitInit ==
  /\ calls = [c \in Calls |-> Idle]
  /\ cache = <<>>
  /\ lastRateLimitedGeminiModelIndex = 0
  /\ fnInput \in {<<Owned(data, <<>>), options>> : data \in OmitData, options \in CompressorOptions}
  /\ fnOutput = <<>>

\* dataCompressor returns; the caller looks at the result and at its own data
CompressWith ==
  /\ fnOutput = <<>>
  /\ LET done == dataCompressorWith(fnInput[1], fnInput[2])
     IN  fnOutput' = <<done.value, After(fnInput[1], done.deleted)>>
  /\ UNCHANGED <<calls, cache, lastRateLimitedGeminiModelIndex, fnInput>>

SpecOmit == OmitInit /\ [][CompressWith]_vars

CompressedWith == fnOutput # <<>> /\ Len(fnInput) = 2 /\ Len(fnOutput) = 2
\* the attributes of the name, at any depth, whose value fails the predicate
RECURSIVE Failing(_, _, _)
Failing(value, name, test) ==
  LET Sum(f) == IF DOMAIN f = {} THEN 0
                ELSE LET RECURSIVE upto(_)
                         upto(n) == IF n = 0 THEN 0 ELSE f[n] + upto(n - 1)
                     IN  upto(Len(f))
  IN  Sum([i \in DOMAIN value.kids |->
             (IF value.kids[i][1] = name /\ ~TestFunc(test, value.kids[i][2]) THEN 1 ELSE 0)
               + Failing(value.kids[i][2], name, test)])
\* the options without the omit
WithoutOmit(options) == [options EXCEPT !.omit = <<>>]

\* C34: an omit pattern with a predicate removes no attribute whose value
\* fails the predicate: the result holds as many such attributes as the
\* result of the same call without the omit
C34_PredicateRespectedEverywhere ==
  CompressedWith =>
    \A i \in DOMAIN fnInput[2].omit :
      LET pattern == fnInput[2].omit[i]
          name == pattern.parts[Len(pattern.parts)]
      IN  pattern.test # Always =>
            Failing(fnOutput[1], name, pattern.test)
              = Failing(dataCompressorWith(fnInput[1], WithoutOmit(fnInput[2])).value,
                        name, pattern.test)

\* C40: after dataCompressor has returned, the caller's data is what it was
C40_InputUnchanged ==
  CompressedWith => fnOutput[2] = fnInput[1]

====
